---- MODULE Spec2Model ----
(***************************************************************************)
(* Recorder backend of kiwisdr-conf: the job state machine (job.rs), the   *)
(* HTTP handlers that drive it (api.rs), the shared job registry           *)
(* (state.rs) and the background scheduler loop (main.rs).                 *)
(*                                                                         *)
(* Every critical section of a tokio Mutex is one action: the code never   *)
(* awaits while it holds a guard, so a critical section is atomic.  What   *)
(* happens between two lock acquisitions of one task (spawning the child,  *)
(* kill + wait) is an action of its own.                                   *)
(***************************************************************************)
EXTENDS Integers, Sequences, FiniteSets, TLC

\* Option<T> of the Rust code: None is the empty tuple, Some(x) is <<x>>.
None == << >>
Some(x) == << x >>

-----------------------------------------------------------------------------
\* Bounds of the model.

\* The clock (Utc::now().timestamp()) runs from 1 to MaxTime.
MaxTime == 2
\* Child processes that can be spawned successfully; later spawns fail.
MaxSpawns == 2
\* Lines the children write to their pipes, all children together.
MaxLines == 1
\* POST /api/recorder/start requests.
MaxRequests == 1
\* POST /api/recorder/stop and DELETE /api/recorder requests.
MaxStopCalls == 1
\* The same requests where they run against each other (StopSpec).
MaxConcurrentStops == 2
\* Start requests that run against each other, and whose jobs the scheduler
\* finds due in one pass (BatchSpec, RegistrySpec).
MaxBatchRequests == 2
\* Lines that the child of LogSpec writes to its stdout.
MaxLogLines == 1001
\* Entries in the log whose display view is built (ViewSpec).
MaxViewEntries == 22
MaxSamples == 60
\* Width in bits of a job id in the model (the u32 of the code): the ids are
\* 0..2^IdBits - 1.
IdBits == 3
-----------------------------------------------------------------------------
\* Program constants.

MAX_LOG_COUNT == 999
MAX_JOB_SLOTS == 3
MIN_FREQ == 0
MAX_FREQ == 30000000
MAX_ZOOM == 31
MAX_LOG_LENGTH == 200
U8_MAX == 255
LOG_COUNT == 20

Min(a, b) == IF a <= b THEN a ELSE b

RECURSIVE Pow2(_)
Pow2(n) == IF n = 0 THEN 1 ELSE 2 * Pow2(n - 1)

-----------------------------------------------------------------------------
\* RecorderSettings (job.rs).  rec_type and duration only shape the argument
\* vector of the child and are left out.

\* A u32 is a pair of 16-bit limbs, value hi * 2^16 + lo, so that every value
\* up to u32::MAX has its place.
LIMB == Pow2(16)

\* The u32 of a number below 2^31.
u32(n) == [hi |-> n \div LIMB, lo |-> n % LIMB]
U32_MAX == [hi |-> LIMB - 1, lo |-> LIMB - 1]

u32_lt(a, b) == a.hi < b.hi \/ (a.hi = b.hi /\ a.lo < b.lo)
u32_gt(a, b) == u32_lt(b, a)

\* a is below 2^31 and is the number to_int(a).
fits_int(a) == a.hi < LIMB \div 2
to_int(a) == a.hi * LIMB + a.lo

\* 1 << zoom in u32, for zoom <= 31.
u32_shl_1(zoom) ==
    IF zoom < 16 THEN [hi |-> 0, lo |-> Pow2(zoom)]
    ELSE [hi |-> Pow2(zoom - 16), lo |-> 0]

\* a / b in u32, for a dividend below 2^31 and b > 0.
u32_div(a, b) ==
    IF fits_int(b) THEN u32(to_int(a) \div to_int(b)) ELSE u32(0)

\* a - b in u32, for a >= b.
u32_sub(a, b) ==
    IF a.lo >= b.lo
    THEN [hi |-> a.hi - b.hi, lo |-> a.lo - b.lo]
    ELSE [hi |-> a.hi - b.hi - 1, lo |-> a.lo + LIMB - b.lo]

\* u32::saturating_add: the sum, or u32::MAX when the sum is beyond it.
saturating_add_u32(a, b) ==
    LET lo == a.lo + b.lo
        hi == a.hi + b.hi + (lo \div LIMB)
    IN  IF hi >= LIMB THEN U32_MAX ELSE [hi |-> hi, lo |-> lo % LIMB]

\* An i64 that came from u32 values is a sign and a magnitude in u32.
i64_from(a) == [neg |-> FALSE, mag |-> a]

\* x / d for an i64 x >= 0 and a small d > 0.
i64_div(x, d) == [neg |-> FALSE, mag |-> u32_div(x.mag, u32(d))]

\* i64::saturating_sub of two i64 that are >= 0 and below 2^32: the
\* difference is within i64 and nothing saturates.
i64_saturating_sub(x, y) ==
    IF u32_lt(x.mag, y.mag)
    THEN [neg |-> TRUE, mag |-> u32_sub(y.mag, x.mag)]
    ELSE [neg |-> FALSE, mag |-> u32_sub(x.mag, y.mag)]

i64_lt(x, y) ==
    IF x.neg # y.neg THEN x.neg
    ELSE IF x.neg THEN u32_lt(y.mag, x.mag)
    ELSE u32_lt(x.mag, y.mag)

\* The settings a request can carry: a one-shot job (interval absent), a
\* job with interval 0, a repeating job, and a request validate() rejects.
Intervals == {None, Some(0), Some(1)}
SettingsChoices ==
    { [frequency |-> u32(15000000), zoom |-> 0, interval |-> i] : i \in Intervals }
    \cup { [frequency |-> u32(10000000), zoom |-> 32, interval |-> None] }

\* validate() with the frequency looked at before the zoom.
validate_frequency_first(s) ==
    IF u32_gt(s.frequency, u32(MAX_FREQ)) THEN "FrequencyAboveMax"
    ELSE IF s.zoom > MAX_ZOOM THEN "ZoomTooHigh"
    ELSE "Ok"

\* The arithmetic steps that validate() evaluates, in their order, each with
\* its operands.
ArithmeticOf(zoom, frequency) ==
    LET shifted == u32_shl_1(zoom)
        range == u32_sub(u32(MAX_FREQ), u32(MIN_FREQ))
        bandwidth == u32_div(range, shifted)
        half == u32_div(bandwidth, u32(2))
    IN  << [op |-> "u32_sub", a |-> u32(MAX_FREQ), b |-> u32(MIN_FREQ)],
           [op |-> "u32_shl", a |-> u32(1), b |-> u32(zoom)],
           [op |-> "u32_div", a |-> range, b |-> shifted],
           [op |-> "u32_div", a |-> bandwidth, b |-> u32(2)],
           [op |-> "u32_saturating_add", a |-> frequency, b |-> half],
           [op |-> "i64_div", a |-> bandwidth, b |-> u32(2)],
           [op |-> "i64_saturating_sub", a |-> frequency, b |-> half] >>

\* validate() without its zoom test: the steps are evaluated for every zoom.
validate_steps_unguarded(s) == ArithmeticOf(s.zoom, s.frequency)

validate_steps(s) ==
    IF s.zoom > MAX_ZOOM THEN << >> ELSE ArithmeticOf(s.zoom, s.frequency)

\* validate() that rejects a window reaching MAX_FREQ itself.
validate_below_max_only(s) ==
    IF s.zoom > MAX_ZOOM THEN "ZoomTooHigh"
    ELSE LET bandwidth == u32_div(u32_sub(u32(MAX_FREQ), u32(MIN_FREQ)), u32_shl_1(s.zoom))
             selection_freq_max ==
                 saturating_add_u32(s.frequency, u32_div(bandwidth, u32(2)))
             selection_freq_min ==
                 i64_saturating_sub(i64_from(s.frequency), i64_div(i64_from(bandwidth), 2))
         IN  IF ~u32_lt(selection_freq_max, u32(MAX_FREQ)) THEN "FrequencyAboveMax"
             ELSE IF i64_lt(selection_freq_min, i64_from(u32(MIN_FREQ)))
             THEN "FrequencyBelowMin"
             ELSE "Ok"

validate(s) ==
    IF s.zoom > MAX_ZOOM THEN "ZoomTooHigh"
    ELSE LET zoom == s.zoom
             center_freq == s.frequency
             bandwidth == u32_div(u32_sub(u32(MAX_FREQ), u32(MIN_FREQ)), u32_shl_1(zoom))
             selection_freq_max ==
                 saturating_add_u32(center_freq, u32_div(bandwidth, u32(2)))
             selection_freq_min ==
                 i64_saturating_sub(i64_from(center_freq), i64_div(i64_from(bandwidth), 2))
         IN  IF u32_gt(selection_freq_max, u32(MAX_FREQ)) THEN "FrequencyAboveMax"
             ELSE IF i64_lt(selection_freq_min, i64_from(u32(MIN_FREQ)))
             THEN "FrequencyBelowMin"
             ELSE "Ok"

-----------------------------------------------------------------------------
\* to_scientific (job.rs): the frequency as written in a file name.  A text
\* under construction is a sequence of characters; the String returned is
\* their concatenation.

RECURSIVE Pow10(_)
Pow10(k) == IF k = 0 THEN 1 ELSE 10 * Pow10(k - 1)

RECURSIVE Pow5(_)
Pow5(k) == IF k = 0 THEN 1 ELSE 5 * Pow5(k - 1)

\* The decimal digits of n, as format!("{}", n) writes an unsigned integer.
RECURSIVE Digits(_)
Digits(n) == IF n < 10 THEN << ToString(n) >>
             ELSE Digits(n \div 10) \o << ToString(n % 10) >>

RECURSIVE Str(_)
Str(text) == IF text = << >> THEN "" ELSE Head(text) \o Str(Tail(text))

\* (num as f64).log10().floor() as u32.  A u32 is exact in an f64; log10 of
\* a power of ten is its exponent, and of a u32 below 10^k it is under k by
\* more than 4e-10, far above the error of log10: the floor is the number of
\* decimal digits of num, less one.
RECURSIVE log10_floor(_)
log10_floor(num) == IF num < 10 THEN 0 ELSE 1 + log10_floor(num \div 10)

\* (a * 2^k) mod p.
RECURSIVE MulPow2Mod(_, _, _)
MulPow2Mod(a, k, p) == IF k = 0 THEN a % p ELSE MulPow2Mod((2 * a) % p, k - 1, p)

\* num as f64 / 10f64.powi(exponent).  Both operands are exact, and the
\* quotient q, in [1, 10), is rounded to the nearest multiple of 2^-s with
\* s = 52 - floor(log2 q).  As 10^e = 2^e * 5^e, q * 2^s is
\* num * 2^(s - e) / 5^e: its remainder mod 5^e tells whether the f64 is q,
\* or its neighbour below or above (5^e is odd, so q * 2^s is never halfway).
\* The f64 is kept as the quotient it stands for and the side it lies on.
f64_div(num, exponent) ==
    LET lead == num \div Pow10(exponent)
        log2 == IF lead >= 8 THEN 3 ELSE IF lead >= 4 THEN 2
                ELSE IF lead >= 2 THEN 1 ELSE 0
        p == Pow5(exponent)
        r == MulPow2Mod(num % p, 52 - log2 - exponent, p)
    IN  [ num |-> num, exponent |-> exponent,
          side |-> IF r = 0 THEN "exact" ELSE IF 2 * r < p THEN "below" ELSE "above" ]

\* The text of a count of thousandths: "9.475" of 9475.
Fixed3(thousandths) ==
    LET frac == thousandths % 1000
    IN  Digits(thousandths \div 1000) \o << "." >>
        \o << ToString(frac \div 100), ToString((frac \div 10) % 10), ToString(frac % 10) >>

\* A format!("{:.3}") that cuts the decimals after the third.
format_3_truncating(mantissa) ==
    IF mantissa.exponent <= 3
    THEN Fixed3(mantissa.num * Pow10(3 - mantissa.exponent))
    ELSE Fixed3(mantissa.num \div Pow10(mantissa.exponent - 3))

\* format!("{:.3}", mantissa): the exact decimal expansion of the f64,
\* rounded to the nearest value of 3 decimals, and to the even one where the
\* f64 is exactly halfway.  The f64 is within 2^-49 of the quotient, and a
\* quotient of at most 9 decimals is either halfway between two values of 3
\* decimals or further than 10^-13 from halfway: the side of the f64 decides
\* only where the quotient is halfway.
format_3(mantissa) ==
    IF mantissa.exponent <= 3
    THEN Fixed3(mantissa.num * Pow10(3 - mantissa.exponent))
    ELSE LET scale == Pow10(mantissa.exponent - 3)
             floor == mantissa.num \div scale
             rest == mantissa.num % scale
         IN  Fixed3(IF 2 * rest < scale THEN floor
                    ELSE IF 2 * rest > scale THEN floor + 1
                    ELSE IF mantissa.side = "below" THEN floor
                    ELSE IF mantissa.side = "above" THEN floor + 1
                    ELSE IF floor % 2 = 0 THEN floor ELSE floor + 1)

RECURSIVE trim_end_matches(_, _)
trim_end_matches(text, c) ==
    IF text # << >> /\ text[Len(text)] = c
    THEN trim_end_matches(SubSeq(text, 1, Len(text) - 1), c)
    ELSE text

replace(text, from, to) ==
    [i \in 1..Len(text) |-> IF text[i] = from THEN to ELSE text[i]]

to_scientific(num) ==
    IF num = 0 THEN "0e0"
    ELSE LET exponent == log10_floor(num)
             mantissa == f64_div(num, exponent)
             mantissa_str ==
                 replace(trim_end_matches(trim_end_matches(format_3(mantissa), "0"), "."),
                         ".", "d")
         IN  Str(mantissa_str) \o "e" \o Str(Digits(exponent))

-----------------------------------------------------------------------------
\* Logs (job.rs).  A log entry is the tag its text starts with: the text
\* after the tag is the child's, and neither it nor the entry's timestamp
\* is read by the backend.

Log(ts, data) == data

\* format!("<{}> {}", pipe_tag, line) of read_output.
LogLine(pipe_tag, line) == "<" \o pipe_tag \o "> " \o line

\* A push that, over the cap, drops the entry it has just added.
LogsPush_evicts_newest(logs, entry) ==
    LET l == Append(logs, entry)
    IN  IF Len(l) > MAX_LOG_COUNT THEN SubSeq(l, 1, Len(l) - 1) ELSE l

\* Where the characters of a text matter (the display view), a text is the
\* sequence of its characters as a Rust String stores them, in UTF-8: a
\* sequence of runs [n, w] of n characters of w bytes each, no run empty and
\* no two neighbours of the same w.
Ascii(n) == IF n = 0 THEN << >> ELSE << [n |-> n, w |-> 1] >>
Wide(n, w) == IF n = 0 THEN << >> ELSE << [n |-> n, w |-> w] >>

\* Concatenation of two texts (format!("{}{}", a, b)).
Cat(a, b) ==
    IF a = << >> THEN b
    ELSE IF b = << >> THEN a
    ELSE IF a[Len(a)].w = b[1].w
    THEN SubSeq(a, 1, Len(a) - 1)
           \o << [n |-> a[Len(a)].n + b[1].n, w |-> b[1].w] >> \o Tail(b)
    ELSE a \o b

\* String::len(): the length in bytes.
RECURSIVE str_len(_)
str_len(text) ==
    IF text = << >> THEN 0 ELSE Head(text).n * Head(text).w + str_len(Tail(text))

\* &text[..n]: the first n bytes of a text of more than n bytes; the slice
\* panics when byte n is not a character boundary.
RECURSIVE str_slice_to(_, _)
str_slice_to(text, n) ==
    IF n = 0 THEN [res |-> "ok", text |-> << >>]
    ELSE LET run == Head(text)
         IN  IF run.n * run.w <= n
             THEN LET rest == str_slice_to(Tail(text), n - run.n * run.w)
                  IN  IF rest.res = "ok"
                      THEN [res |-> "ok", text |-> Cat(<< run >>, rest.text)]
                      ELSE rest
             ELSE IF n % run.w = 0
             THEN [res |-> "ok", text |-> Wide(n \div run.w, run.w)]
             ELSE [res |-> "panic", text |-> << >>]

\* Log::get_truncated: format!("{}...", &self.data[..MAX_LOG_LENGTH])
Log_get_truncated(data) ==
    IF str_len(data) > MAX_LOG_LENGTH
    THEN LET head == str_slice_to(data, MAX_LOG_LENGTH)
         IN  IF head.res = "ok"
             THEN [res |-> "ok", text |-> Cat(head.text, Ascii(3))]
             ELSE head
    ELSE [res |-> "ok", text |-> data]

\* Logs::get_truncated: self.logs.iter().rev().take(LOG_COUNT).map(..)
Logs_get_truncated(logs) ==
    LET n == Min(Len(logs), LOG_COUNT)
        view == [i \in 1..n |-> Log_get_truncated(logs[Len(logs) - i + 1])]
    IN  IF \E i \in 1..n : view[i].res = "panic"
        THEN [res |-> "panic", logs |-> << >>]
        ELSE [res |-> "ok", logs |-> [i \in 1..n |-> view[i].text]]

LogsPush(logs, entry) ==
    LET l == Append(logs, entry)
    IN  IF Len(l) > MAX_LOG_COUNT THEN Tail(l) ELSE l

-----------------------------------------------------------------------------
\* Job (job.rs).

JobStatus == {"Idle", "Starting", "Running", "Stopping"}

\* generate_uid draws a random token, which names output files only.
Uids == {"UID"}

\* Job::new with a next run at time 0 already set.
JobNew_with_next_run(job_id, uid, settings) ==
    [ job_id         |-> job_id,
      job_uid        |-> uid,
      status         |-> "Idle",
      process        |-> None,
      started_at     |-> None,
      next_run_start |-> Some(0),
      logs           |-> << >>,
      settings       |-> settings ]

\* Job::new that leaves the id of the job at 0 whatever id it is given.
JobNew_without_id(job_id, uid, settings) ==
    [ job_id         |-> 0,
      job_uid        |-> uid,
      status         |-> "Idle",
      process        |-> None,
      started_at     |-> None,
      next_run_start |-> None,
      logs           |-> << >>,
      settings       |-> settings ]

JobNew(job_id, uid, settings) ==
    [ job_id         |-> job_id,
      job_uid        |-> uid,
      status         |-> "Idle",
      process        |-> None,
      started_at     |-> None,
      next_run_start |-> None,
      logs           |-> << >>,
      settings       |-> settings ]

unwrap_or(opt, default) == IF opt = None THEN default ELSE opt[1]

\* is_waiting_to_start with < for <=: a job is not due at its next_run_start.
is_waiting_to_start_strict(job, t) ==
    /\ job.status = "Idle"
    /\ unwrap_or(job.next_run_start, 0) < t
    /\ job.process = None

is_waiting_to_start(job, t) ==
    /\ job.status = "Idle"
    /\ unwrap_or(job.next_run_start, 0) <= t
    /\ job.process = None

push_log(job, data, t) ==
    [job EXCEPT !.logs = LogsPush(job.logs, Log(t, data))]

\* The mark_* transitions return [res, job]: res is "ok", "err" (the
\* io::Error the function returns) or "panic" (a debug_assert! that fails
\* in a build with debug assertions; the job is then left as it was).

mark_starting(job, dbg) ==
    IF dbg /\ job.process # None THEN [res |-> "panic", job |-> job]
    ELSE IF job.status # "Idle" THEN [res |-> "err", job |-> job]
    ELSE [res |-> "ok", job |-> [job EXCEPT !.status = "Starting"]]

\* The match of mark_running without its Some(0) arm: interval 0 repeats.
next_run_of_any_interval(interval, t) ==
    IF interval = None THEN None ELSE Some(t + interval[1])

\* self.next_run_start = match self.settings.interval { .. }
next_run_of(interval, t) ==
    IF interval = None \/ interval = Some(0) THEN None ELSE Some(t + interval[1])

mark_running(job, child, t, dbg) ==
    IF dbg /\ job.status # "Starting" THEN [res |-> "panic", job |-> job]
    ELSE [res |-> "ok",
          job |-> push_log(
                    push_log(
                      [job EXCEPT !.status = "Running",
                                  !.process = Some(child),
                                  !.started_at = Some(t),
                                  !.next_run_start = next_run_of(job.settings.interval, t)],
                      "<Started>", t),
                    "<Settings>", t)]

\* mark_stopping without its status check.
mark_stopping_unchecked(job) ==
    [res |-> "ok", job |-> [job EXCEPT !.status = "Stopping"]]

mark_stopping(job) ==
    IF job.status # "Running" THEN [res |-> "err", job |-> job]
    ELSE [res |-> "ok", job |-> [job EXCEPT !.status = "Stopping"]]

\* mark_exited without self.process = None.
mark_exited_keeps_process(job, t, dbg) ==
    IF dbg /\ job.status \notin {"Running", "Stopping"}
    THEN [res |-> "panic", job |-> job]
    ELSE [res |-> "ok",
          job |-> push_log([job EXCEPT !.status = "Idle"], "<Exited>", t)]

mark_exited(job, t, dbg) ==
    IF dbg /\ job.status \notin {"Running", "Stopping"}
    THEN [res |-> "panic", job |-> job]
    ELSE [res |-> "ok",
          job |-> push_log([job EXCEPT !.status = "Idle", !.process = None],
                           "<Exited>", t)]

\* mark_stopped_manually without self.status = JobStatus::Idle.
mark_stopped_manually_keeps_status(job, t, dbg) ==
    IF dbg /\ job.status # "Stopping" THEN [res |-> "panic", job |-> job]
    ELSE [res |-> "ok",
          job |-> push_log([job EXCEPT !.process = None], "<Stopped Manually>", t)]

mark_stopped_manually(job, t, dbg) ==
    IF dbg /\ job.status # "Stopping" THEN [res |-> "panic", job |-> job]
    ELSE [res |-> "ok",
          job |-> push_log([job EXCEPT !.status = "Idle", !.process = None],
                           "<Stopped Manually>", t)]

-----------------------------------------------------------------------------
\* The registry (state.rs, JobMap) and id allocation (job.rs).

\* The bounds of the id type, u32::MIN and u32::MAX.
ID_MIN == 0
ID_MAX == Pow2(IdBits) - 1

\* (start..end).find(|id| !map.contains_key(id)): the first id of the
\* half-open range, counting up from start, that is no key of the map.
RECURSIVE find(_, _, _)
find(map, start, end) ==
    IF start >= end THEN None
    ELSE IF start \notin DOMAIN map THEN Some(start)
    ELSE find(map, start + 1, end)

\* One more than the largest id in use: an id freed below it is not reused.
get_next_free_id_above_last(map) ==
    IF Cardinality(DOMAIN map) = 0 THEN Some(ID_MIN)
    ELSE LET last == CHOOSE k \in DOMAIN map : \A other \in DOMAIN map : other <= k
         IN  IF last + 1 >= ID_MAX THEN None ELSE Some(last + 1)

\* The largest id in use for the new id.
get_next_free_id_last_used(map) ==
    IF Cardinality(DOMAIN map) = 0 THEN Some(ID_MIN)
    ELSE Some(CHOOSE k \in DOMAIN map : \A other \in DOMAIN map : other <= k)

\* (u32::MIN..u32::MAX).find(..); the caller's expect() panics on None.
get_next_free_id(map) == find(map, ID_MIN, ID_MAX)

MapInsert(map, k, v) == [x \in DOMAIN map \cup {k} |-> IF x = k THEN v ELSE map[x]]
\* A removal that clears the map.
MapRemove_all(map, k) == << >>

MapRemove(map, k) == [x \in DOMAIN map \ {k} |-> map[x]]

-----------------------------------------------------------------------------
\* State.

VARIABLES
    now,               \* Utc::now().timestamp()
    debug_assertions,  \* whether the build checks debug_assert!
    registry,          \* AppState.jobs: job id -> job handle
    jobs,              \* the Job behind each handle (Arc<Mutex<Job>>), by creation
    procs,             \* the children spawned so far, with their two reader tasks
    reqs,              \* the start_recorder requests
    stops,             \* the stop_recorder and remove_recorder requests
    sched,             \* the job_scheduler task
    info,              \* the recorder_status_one request and its answer
    locks              \* the locks held: the registry's and the jobs' mutexes

vars == << now, debug_assertions, registry, jobs, procs, reqs, stops, sched, info,
          locks >>

Requests == 1..MaxRequests
StopCalls == 1..MaxStopCalls
ConcurrentStops == 1..MaxConcurrentStops
BatchRequests == 1..MaxBatchRequests
\* The ids a stop or removal request can name.
RequestIds == 0..(MaxRequests - 1)
\* The same where several jobs exist: their ids, and one id no job has.
RegistryIds == 0..MaxBatchRequests

NoCall == [pc |-> "new", settings |-> None, job |-> 0, child |-> 0, resp |-> "none"]
NoStop == [pc |-> "new", kind |-> "none", id |-> 0, job |-> 0, child |-> None,
           resp |-> "none"]
NoInfo == [pc |-> "new", job |-> 0, logs |-> << >>]

Init ==
    /\ now = 1
    /\ debug_assertions \in BOOLEAN
    /\ registry = << >>
    /\ jobs = << >>
    /\ procs = << >>
    /\ reqs = [r \in Requests \cup BatchRequests |-> NoCall]
    /\ stops = [s \in StopCalls \cup ConcurrentStops |-> NoStop]
    /\ sched = [pc |-> "snapshot", snapshot |-> << >>, due |-> << >>,
                job |-> 0, child |-> 0]
    /\ info = NoInfo
    /\ locks = { }

\* tokio::sync::Mutex.  An entry of locks is a guard: the task that holds it
\* and the mutex, the registry's or that of the job behind a handle.
RegistryLock == << "registry", 0 >>
JobLock(h) == << "job", h >>

Guard(task, lock) == [task |-> task, lock |-> lock]

Free(lock) == \A g \in locks : g.lock # lock

\* let guard = mutex.lock().await; ..; drop(guard) (or the end of the
\* guard's scope, a return or a panic): the task enters with the guard it
\* has taken in a step of its own, or takes the free mutex now; it leaves
\* without the guard.
Section(task, lock) ==
    /\ Guard(task, lock) \in locks \/ Free(lock)
    /\ locks' = locks \ {Guard(task, lock)}

\* A section on a job whose guard is never dropped.
JobSection_without_drop(task, h) ==
    /\ Guard(task, JobLock(h)) \in locks \/ Free(JobLock(h))
    /\ locks' = locks \cup {Guard(task, JobLock(h))}

JobSection(task, h) == Section(task, JobLock(h))

\* A section on the registry whose guard is never dropped.
RegistrySection_without_drop(task) ==
    /\ Guard(task, RegistryLock) \in locks \/ Free(RegistryLock)
    /\ locks' = locks \cup {Guard(task, RegistryLock)}

RegistrySection(task) == Section(task, RegistryLock)

\* Two sections one after the other: the first guard is dropped before the
\* second mutex is locked.
SectionsInTurn(task, first, second) ==
    /\ Guard(task, first) \in locks \/ Free(first)
    /\ Free(second)
    /\ locks' = locks \ {Guard(task, first)}

\* The wall clock advances.
Tick ==
    /\ now < MaxTime
    /\ now' = now + 1
    /\ UNCHANGED << debug_assertions, registry, jobs, procs, reqs, stops, sched, info, locks >>

-----------------------------------------------------------------------------
\* Job::start, called by start_recorder and by the scheduler.

\* A caller is a request, or the scheduler task.
Scheduler == 0
Callers == Requests \cup {Scheduler}

Caller(c) == IF c = Scheduler THEN sched ELSE reqs[c]

\* The task of a caller: the scheduler's, or a request's.
TaskOf(c) == IF c = Scheduler THEN << "sched", 0 >> ELSE << "req", c >>

SetCaller(c, rec) ==
    IF c = Scheduler
    THEN sched' = rec /\ UNCHANGED reqs
    ELSE reqs' = [reqs EXCEPT ![c] = rec] /\ UNCHANGED sched

\* The scheduler moves to the next job of jobs_to_start; after the last
\* one it sleeps for CHECK_INTERVAL and is back at the top of its loop.
SchedNext(rec) ==
    IF rec.due = << >>
    THEN [rec EXCEPT !.pc = "snapshot", !.job = 0, !.child = 0]
    ELSE [rec EXCEPT !.pc = "mark_starting", !.job = Head(rec.due),
                     !.due = Tail(rec.due), !.child = 0]

\* What the caller does once Job::start has returned res: start_recorder
\* answers 500 on an error and goes on to its insert otherwise; the
\* scheduler prints the error and goes on.  A panic ends the task.
AfterStart(c, rec, res) ==
    IF res = "panic" THEN [rec EXCEPT !.pc = "panicked"]
    ELSE IF c = Scheduler THEN SchedNext(rec)
    ELSE IF res = "ok" THEN [rec EXCEPT !.pc = "insert"]
    ELSE [rec EXCEPT !.pc = "done", !.resp = res]

\* let mut job = shared_job.lock().await; job.mark_starting()?; drop(job)
StartMarkStarting(c) ==
    LET rec == Caller(c)
        r == mark_starting(jobs[rec.job], debug_assertions)
    IN  /\ rec.pc = "mark_starting"
        /\ jobs' = [jobs EXCEPT ![rec.job] = r.job]
        /\ SetCaller(c, IF r.res = "ok" THEN [rec EXCEPT !.pc = "spawn"]
                        ELSE AfterStart(c, rec, IF r.res = "err" THEN "not_idle" ELSE r.res))
        /\ JobSection(TaskOf(c), rec.job)
        /\ UNCHANGED << now, debug_assertions, registry, procs, stops, info >>

NewProc(h, c) ==
    [ job |-> h,
      by |-> IF c = Scheduler THEN "sched" ELSE "api",
      exited |-> FALSE,        \* the child has exited; both pipes are at EOF
      killed |-> FALSE,        \* Job::stop has killed it
      attached |-> FALSE,      \* mark_running has stored its handle
      \* an earlier child of the job has run (Job::start returned Ok) and exited
      relaunch |-> \E q \in 1..Len(procs) :
                      procs[q].job = h /\ procs[q].attached /\ procs[q].exited,
      wrote |-> 0,             \* lines written so far
      out |-> 0,               \* lines in the stdout pipe
      err |-> 0,               \* lines in the stderr pipe
      rdOut |-> "reading",     \* read_output(stdout, .., "STDOUT", true)
      rdErr |-> "reading",     \* read_output(stderr, .., "STDERR", false)
      marked |-> 0 ]           \* calls of mark_exited by its reader tasks

\* Command::spawn()? and the two tokio::spawn(read_output(..)).
StartSpawn(c) ==
    LET rec == Caller(c)
    IN  /\ rec.pc = "spawn"
        /\ \/ /\ Len(procs) < MaxSpawns
              /\ procs' = Append(procs, NewProc(rec.job, c))
              /\ SetCaller(c, [rec EXCEPT !.pc = "mark_running", !.child = Len(procs) + 1])
           \/ /\ procs' = procs
              /\ SetCaller(c, AfterStart(c, rec, "spawn_failed"))
        /\ UNCHANGED << now, debug_assertions, registry, jobs, stops, info, locks >>

\* let mut job = shared_job.lock().await; job.mark_running(child); Ok(())
StartMarkRunning(c) ==
    LET rec == Caller(c)
        r == mark_running(jobs[rec.job], rec.child, now, debug_assertions)
    IN  /\ rec.pc = "mark_running"
        /\ jobs' = [jobs EXCEPT ![rec.job] = r.job]
        /\ procs' = IF r.res = "ok"
                    THEN [procs EXCEPT ![rec.child].attached = TRUE]
                    ELSE procs
        /\ SetCaller(c, AfterStart(c, rec, r.res))
        /\ JobSection(TaskOf(c), rec.job)
        /\ UNCHANGED << now, debug_assertions, registry, stops, info >>

-----------------------------------------------------------------------------
\* The child process and Job::read_output, one task per pipe.

Streams == {"out", "err"}

RECURSIVE LinesWritten(_)
LinesWritten(n) == IF n = 0 THEN 0 ELSE procs[n].wrote + LinesWritten(n - 1)

\* The child writes a line to stdout or stderr.
ChildWrite(p, stream) ==
    /\ ~procs[p].exited
    /\ LinesWritten(Len(procs)) < MaxLines
    /\ procs' = IF stream = "out"
                THEN [procs EXCEPT ![p].out = @ + 1, ![p].wrote = @ + 1]
                ELSE [procs EXCEPT ![p].err = @ + 1, ![p].wrote = @ + 1]
    /\ UNCHANGED << now, debug_assertions, registry, jobs, reqs, stops, sched, info, locks >>

\* The child exits on its own; its pipes reach EOF once drained.
ChildExit(p) ==
    /\ ~procs[p].exited
    /\ procs' = [procs EXCEPT ![p].exited = TRUE]
    /\ UNCHANGED << now, debug_assertions, registry, jobs, reqs, stops, sched, info, locks >>

\* The last argument of the two read_output calls of Job::start.
responsible_for_exit_both(stream) == TRUE

responsible_for_exit(stream) == stream = "out"

Reader(p, stream) == IF stream = "out" THEN procs[p].rdOut ELSE procs[p].rdErr

Pipe(p, stream) == IF stream = "out" THEN procs[p].out ELSE procs[p].err

\* while let Ok(Some(line)) = lines.next_line().await { lock; push_log }
ReadLine(p, stream) ==
    /\ Reader(p, stream) = "reading" /\ Pipe(p, stream) > 0
    /\ IF stream = "out"
       THEN /\ procs' = [procs EXCEPT ![p].out = @ - 1]
            /\ jobs' = [jobs EXCEPT ![procs[p].job] = push_log(@, "<STDOUT>", now)]
       ELSE /\ procs' = [procs EXCEPT ![p].err = @ - 1]
            /\ jobs' = [jobs EXCEPT ![procs[p].job] = push_log(@, "<STDERR>", now)]
    /\ JobSection(<< stream, p >>, procs[p].job)
    /\ UNCHANGED << now, debug_assertions, registry, reqs, stops, sched, info >>

\* End of stream: if responsible_for_exit { lock; mark_exited }, and the
\* task is over.  The end of the task of stderr changes nothing that any
\* other task reads: only ReaderSpec follows that task to its end.
ReadEof(p, stream) ==
    LET r == mark_exited(jobs[procs[p].job], now, debug_assertions)
        end == IF responsible_for_exit(stream) /\ r.res = "panic" THEN "panicked" ELSE "done"
        calls == IF responsible_for_exit(stream) THEN 1 ELSE 0
    IN  /\ Reader(p, stream) = "reading" /\ Pipe(p, stream) = 0 /\ procs[p].exited
        /\ jobs' = IF responsible_for_exit(stream)
                   THEN [jobs EXCEPT ![procs[p].job] = r.job]
                   ELSE jobs
        /\ procs' = IF stream = "out"
                    THEN [procs EXCEPT ![p].rdOut = end, ![p].marked = @ + calls]
                    ELSE [procs EXCEPT ![p].rdErr = end, ![p].marked = @ + calls]
        /\ IF responsible_for_exit(stream)
           THEN JobSection(<< stream, p >>, procs[p].job)
           ELSE UNCHANGED locks
        /\ UNCHANGED << now, debug_assertions, registry, reqs, stops, sched, info >>

\* while let Ok(Some(line)) = .. ends as well when next_line() returns Err:
\* the line that the child wrote is not UTF-8, or the read fails.  The child
\* need not have exited.  The task then goes on as at the end of its stream.
ReadErr(p, stream) ==
    LET r == mark_exited(jobs[procs[p].job], now, debug_assertions)
        end == IF responsible_for_exit(stream) /\ r.res = "panic" THEN "panicked" ELSE "done"
        calls == IF responsible_for_exit(stream) THEN 1 ELSE 0
    IN  /\ Reader(p, stream) = "reading" /\ Pipe(p, stream) > 0
        /\ jobs' = IF responsible_for_exit(stream)
                   THEN [jobs EXCEPT ![procs[p].job] = r.job]
                   ELSE jobs
        /\ procs' = IF stream = "out"
                    THEN [procs EXCEPT ![p].rdOut = end, ![p].marked = @ + calls]
                    ELSE [procs EXCEPT ![p].rdErr = end, ![p].marked = @ + calls]
        /\ IF responsible_for_exit(stream)
           THEN JobSection(<< stream, p >>, procs[p].job)
           ELSE UNCHANGED locks
        /\ UNCHANGED << now, debug_assertions, registry, reqs, stops, sched, info >>

-----------------------------------------------------------------------------
\* start_recorder (api.rs).

\* create_job (job.rs): lock the registry, allocate an id, insert the new
\* Idle job; the new handle is Len(js) + 1.  expect("Job ID space
\* exhausted") panics when get_next_free_id found no id.
create_job(map, js, settings, uid) ==
    LET id == get_next_free_id(map)
    IN  IF id = None
        THEN [res |-> "panic", registry |-> map, jobs |-> js]
        ELSE [res |-> "ok",
              registry |-> MapInsert(map, id[1], Len(js) + 1),
              jobs |-> Append(js, JobNew(id[1], uid, settings))]

\* The request arrives with settings s: the slot check under the registry
\* lock, then settings.validate(), whose error is the answer's message.
\* Requests are numbered in their order of arrival.
StartRecorderChecks(r, s) ==
    /\ reqs[r].pc = "new"
    /\ r > 1 => reqs[r - 1].pc # "new"
    /\ reqs' = [reqs EXCEPT ![r] =
                  IF Cardinality(DOMAIN registry) >= MAX_JOB_SLOTS
                  THEN [@ EXCEPT !.pc = "done", !.settings = s, !.resp = "slots_full"]
                  ELSE IF validate(s) # "Ok"
                  THEN [@ EXCEPT !.pc = "done", !.settings = s, !.resp = validate(s)]
                  ELSE [@ EXCEPT !.pc = "create_job", !.settings = s]]
    /\ RegistrySection(<< "req", r >>)
    /\ UNCHANGED << now, debug_assertions, registry, jobs, procs, stops, sched, info >>

ReqSlotCheck(r) == \E s \in SettingsChoices : StartRecorderChecks(r, s)

ReqCreateJob(r) ==
    /\ reqs[r].pc = "create_job"
    /\ \E uid \in Uids :
         LET c == create_job(registry, jobs, reqs[r].settings, uid)
         IN  /\ registry' = c.registry
             /\ jobs' = c.jobs
             /\ reqs' = IF c.res = "ok"
                        THEN [reqs EXCEPT ![r].pc = "mark_starting", ![r].job = Len(c.jobs)]
                        ELSE [reqs EXCEPT ![r].pc = "panicked"]
    /\ RegistrySection(<< "req", r >>)
    /\ UNCHANGED << now, debug_assertions, procs, stops, sched, info >>

\* After Job::start returned Ok: read the job's id under its lock, insert
\* the handle under that id, answer with the JobInfo.
ReqInsert(r) ==
    /\ reqs[r].pc = "insert"
    /\ registry' = MapInsert(registry, jobs[reqs[r].job].job_id, reqs[r].job)
    /\ reqs' = [reqs EXCEPT ![r].pc = "done", ![r].resp = "ok"]
    /\ SectionsInTurn(<< "req", r >>, JobLock(reqs[r].job), RegistryLock)
    /\ UNCHANGED << now, debug_assertions, jobs, procs, stops, sched, info >>

-----------------------------------------------------------------------------
\* stop_recorder and remove_recorder (api.rs), and Job::stop (job.rs).

\* stop_recorder: hashmap.get(&job_id).cloned()
StopRecorder(s, id) ==
    /\ stops[s].pc = "new"
    /\ s > 1 => stops[s - 1].pc # "new"
    /\ stops' = [stops EXCEPT ![s] =
                   IF id \in DOMAIN registry
                   THEN [@ EXCEPT !.pc = "mark_stopping", !.kind = "stop", !.id = id,
                                  !.job = registry[id]]
                   ELSE [@ EXCEPT !.pc = "done", !.kind = "stop", !.id = id,
                                  !.resp = "not_found"]]
    /\ RegistrySection(<< "stop", s >>)
    /\ UNCHANGED << now, debug_assertions, registry, jobs, procs, reqs, sched, info >>

\* remove_recorder: hashmap.remove(&job_id)
RemoveRecorder(s, id) ==
    /\ stops[s].pc = "new"
    /\ s > 1 => stops[s - 1].pc # "new"
    /\ registry' = IF id \in DOMAIN registry THEN MapRemove(registry, id) ELSE registry
    /\ stops' = [stops EXCEPT ![s] =
                   IF id \in DOMAIN registry
                   THEN [@ EXCEPT !.pc = "mark_stopping", !.kind = "remove", !.id = id,
                                  !.job = registry[id]]
                   ELSE [@ EXCEPT !.pc = "done", !.kind = "remove", !.id = id,
                                  !.resp = "not_found"]]
    /\ RegistrySection(<< "stop", s >>)
    /\ UNCHANGED << now, debug_assertions, jobs, procs, reqs, sched, info >>

\* A take() that hands out the handle and leaves it in the slot as well.
process_take_leaves_handle(job) == [child |-> job.process, job |-> job]

\* job.process.take(): the handle moves out, the slot is left empty.
process_take(job) == [child |-> job.process, job |-> [job EXCEPT !.process = None]]

\* let mut job = lock; job.mark_stopping()?; let child = job.process.take()
StopMarkStopping(s) ==
    LET h == stops[s].job
        r == mark_stopping(jobs[h])
    IN  /\ stops[s].pc = "mark_stopping"
        /\ IF r.res = "ok"
           THEN /\ jobs' = [jobs EXCEPT ![h] = process_take(r.job).job]
                /\ stops' = [stops EXCEPT ![s].pc = "kill",
                                          ![s].child = process_take(r.job).child]
           ELSE /\ jobs' = jobs
                /\ stops' = [stops EXCEPT ![s].pc = "done", ![s].resp = "not_running"]
        /\ JobSection(<< "stop", s >>, h)
        /\ UNCHANGED << now, debug_assertions, registry, procs, reqs, sched, info >>

\* if let Some(mut child) = child { child.kill().await?; child.wait().await? }
StopKill(s) ==
    /\ stops[s].pc = "kill"
    /\ IF stops[s].child = None
       THEN /\ procs' = procs
            /\ stops' = [stops EXCEPT ![s].pc = "mark_stopped"]
       ELSE \/ /\ procs' = [procs EXCEPT ![stops[s].child[1]].exited = TRUE,
                                         ![stops[s].child[1]].killed = TRUE]
               /\ stops' = [stops EXCEPT ![s].pc = "mark_stopped"]
            \/ /\ procs' = procs
               /\ stops' = [stops EXCEPT ![s].pc = "done", ![s].resp = "kill_failed"]
    /\ UNCHANGED << now, debug_assertions, registry, jobs, reqs, sched, info, locks >>

\* let mut job = lock; job.mark_stopped_manually(); Ok(())
StopMarkStopped(s) ==
    LET h == stops[s].job
        r == mark_stopped_manually(jobs[h], now, debug_assertions)
    IN  /\ stops[s].pc = "mark_stopped"
        /\ jobs' = [jobs EXCEPT ![h] = r.job]
        /\ stops' = [stops EXCEPT ![s].pc = IF r.res = "ok" THEN "done" ELSE "panicked",
                                  ![s].resp = IF r.res = "ok" THEN "ok" ELSE "none"]
        /\ JobSection(<< "stop", s >>, h)
        /\ UNCHANGED << now, debug_assertions, registry, procs, reqs, sched, info >>

-----------------------------------------------------------------------------
\* job_scheduler (main.rs): snapshot the registry, lock each job to see
\* whether it is due, then start the due ones one after the other.  The due
\* test that main.rs spells out (not running, next_run_start.unwrap_or(0) <=
\* now, no process) is Job::is_waiting_to_start of job.rs, and the launch
\* is Job::start.

\* hashmap.values().cloned().collect(): the handles in the map's iteration
\* order, which a HashMap does not fix.
Orders(S) ==
    { o \in [1..Cardinality(S) -> S] : \A i, j \in 1..Cardinality(S) : o[i] = o[j] => i = j }

Handles(map) == { map[k] : k \in DOMAIN map }

SchedSnapshot ==
    /\ sched.pc = "snapshot"
    /\ \E o \in Orders(Handles(registry)) :
         sched' = IF Len(o) = 0
                  THEN sched
                  ELSE [sched EXCEPT !.pc = "evaluate", !.snapshot = o, !.due = << >>]
    /\ RegistrySection(TaskOf(Scheduler))
    /\ UNCHANGED << now, debug_assertions, registry, jobs, procs, reqs, stops, info >>

\* for shared_job in shared_jobs { lock; if due { jobs_to_start.push(..) } }
\* After the last job the loop over jobs_to_start begins.
SchedEvaluate ==
    /\ sched.pc = "evaluate"
    /\ LET h == Head(sched.snapshot)
           rec == [sched EXCEPT !.snapshot = Tail(sched.snapshot),
                                !.due = IF is_waiting_to_start(jobs[h], now)
                                        THEN Append(sched.due, h) ELSE sched.due]
       IN  sched' = IF rec.snapshot = << >> THEN SchedNext(rec) ELSE rec
    /\ JobSection(TaskOf(Scheduler), Head(sched.snapshot))
    /\ UNCHANGED << now, debug_assertions, registry, jobs, procs, reqs, stops, info >>

-----------------------------------------------------------------------------
\* recorder_status_all (api.rs): collect the handles under the registry
\* lock, then lock one job after the other for its JobInfo.

StatusAllCollect ==
    /\ info.pc = "new"
    /\ \E o \in Orders(Handles(registry)) :
         info' = [pc |-> "jobs", job |-> 0, logs |-> << >>, handles |-> o]
    /\ RegistrySection(<< "status", 0 >>)
    /\ UNCHANGED << now, debug_assertions, registry, jobs, procs, reqs, stops, sched >>

\* JobInfo::from under the job's lock.  The entries of the logs here are
\* tags, shorter than MAX_LOG_LENGTH, which Log::get_truncated returns
\* whole: the view is the last LOG_COUNT of them, newest first.
StatusAllJob ==
    /\ info.pc = "jobs"
    /\ IF info.handles = << >>
       THEN /\ info' = [info EXCEPT !.pc = "done"]
            /\ UNCHANGED locks
       ELSE LET logs == jobs[Head(info.handles)].logs
                n == Min(Len(logs), LOG_COUNT)
            IN  /\ info' = [info EXCEPT !.job = Head(info.handles),
                                        !.logs = [i \in 1..n |-> logs[Len(logs) - i + 1]],
                                        !.handles = Tail(info.handles)]
                /\ JobSection(<< "status", 0 >>, Head(info.handles))
    /\ UNCHANGED << now, debug_assertions, registry, jobs, procs, reqs, stops, sched >>

-----------------------------------------------------------------------------
\* mutex.lock().await on its own: the step in which a task is given the
\* guard that its next section works under.

Procs == 1..Len(procs)

Tasks ==
    { << "req", r >> : r \in Requests } \cup { << "stop", s >> : s \in StopCalls }
    \cup { << "sched", 0 >>, << "status", 0 >> }
    \cup { << st, p >> : st \in Streams, p \in Procs }

\* The mutex that the next section of a task locks, if the task is before a
\* section: each section and its mutex are those of the task's action at
\* that point.
Wanted(task) ==
    LET kind == task[1]
        n == task[2]
    IN  CASE kind = "req" ->
               IF reqs[n].pc = "new" /\ (n > 1 => reqs[n - 1].pc # "new")
               THEN Some(RegistryLock)
               ELSE IF reqs[n].pc = "create_job" THEN Some(RegistryLock)
               ELSE IF reqs[n].pc \in {"mark_starting", "mark_running", "insert"}
               THEN Some(JobLock(reqs[n].job))
               ELSE None
          [] kind = "stop" ->
               IF stops[n].pc = "new" /\ (n > 1 => stops[n - 1].pc # "new")
               THEN Some(RegistryLock)
               ELSE IF stops[n].pc \in {"mark_stopping", "mark_stopped"}
               THEN Some(JobLock(stops[n].job))
               ELSE None
          [] kind = "sched" ->
               IF sched.pc = "snapshot" THEN Some(RegistryLock)
               ELSE IF sched.pc = "evaluate" THEN Some(JobLock(Head(sched.snapshot)))
               ELSE IF sched.pc \in {"mark_starting", "mark_running"}
               THEN Some(JobLock(sched.job))
               ELSE None
          [] kind = "status" ->
               IF info.pc = "new" THEN Some(RegistryLock)
               ELSE IF info.pc = "jobs" /\ info.handles # << >>
               THEN Some(JobLock(Head(info.handles)))
               ELSE None
          [] OTHER ->
               IF /\ Reader(n, kind) = "reading"
                  /\ \/ Pipe(n, kind) > 0
                     \/ Pipe(n, kind) = 0 /\ procs[n].exited /\ responsible_for_exit(kind)
               THEN Some(JobLock(procs[n].job))
               ELSE None

Lock(task) ==
    /\ Wanted(task) # None
    /\ Free(Wanted(task)[1])
    /\ locks' = locks \cup {Guard(task, Wanted(task)[1])}
    /\ UNCHANGED << now, debug_assertions, registry, jobs, procs, reqs, stops, sched, info >>

-----------------------------------------------------------------------------


Next ==
    \/ Tick
    \/ \E c \in Callers : StartMarkStarting(c)
    \/ \E c \in Callers : StartSpawn(c)
    \/ \E c \in Callers : StartMarkRunning(c)
    \/ \E p \in Procs, st \in Streams : ChildWrite(p, st)
    \/ \E p \in Procs : ChildExit(p)
    \/ \E p \in Procs, st \in Streams : ReadLine(p, st)
    \/ \E p \in Procs : ReadEof(p, "out")
    \/ \E r \in Requests : ReqSlotCheck(r)
    \/ \E r \in Requests : ReqCreateJob(r)
    \/ \E r \in Requests : ReqInsert(r)
    \/ \E s \in StopCalls, id \in RequestIds : StopRecorder(s, id)
    \/ \E s \in StopCalls, id \in RequestIds : RemoveRecorder(s, id)
    \/ \E s \in StopCalls : StopMarkStopping(s)
    \/ \E s \in StopCalls : StopKill(s)
    \/ \E s \in StopCalls : StopMarkStopped(s)
    \/ SchedSnapshot
    \/ SchedEvaluate

Spec == Init /\ [][Next]_vars

\* The handlers without the scheduler, with stop and removal requests that
\* run against each other.
NextStop ==
    \/ \E r \in Requests : StartMarkStarting(r)
    \/ \E r \in Requests : StartSpawn(r)
    \/ \E r \in Requests : StartMarkRunning(r)
    \/ \E p \in Procs : ChildExit(p)
    \/ \E p \in Procs : ReadEof(p, "out")
    \/ \E r \in Requests : ReqSlotCheck(r)
    \/ \E r \in Requests : ReqCreateJob(r)
    \/ \E r \in Requests : ReqInsert(r)
    \/ \E s \in ConcurrentStops, id \in RequestIds : StopRecorder(s, id)
    \/ \E s \in ConcurrentStops, id \in RequestIds : RemoveRecorder(s, id)
    \/ \E s \in ConcurrentStops : StopMarkStopping(s)
    \/ \E s \in ConcurrentStops : StopKill(s)
    \/ \E s \in ConcurrentStops : StopMarkStopped(s)

StopSpec == Init /\ [][NextStop]_vars

\* The scheduler loop with the start requests and the children, and no stop
\* request.  The tokio runtime runs every task that can take a step, so the
\* scheduler task is scheduled fairly.
NextLive ==
    \/ Tick
    \/ \E c \in Callers : StartMarkStarting(c)
    \/ \E c \in Callers : StartSpawn(c)
    \/ \E c \in Callers : StartMarkRunning(c)
    \/ \E p \in Procs : ChildExit(p)
    \/ \E p \in Procs : ReadEof(p, "out")
    \/ \E r \in Requests : ReqSlotCheck(r)
    \/ \E r \in Requests : ReqCreateJob(r)
    \/ \E r \in Requests : ReqInsert(r)
    \/ SchedSnapshot
    \/ SchedEvaluate

SchedulerFairness ==
    /\ WF_vars(SchedSnapshot)
    /\ WF_vars(SchedEvaluate)
    /\ WF_vars(StartMarkStarting(Scheduler))
    /\ WF_vars(StartSpawn(Scheduler))
    /\ WF_vars(StartMarkRunning(Scheduler))

LiveSpec == Init /\ [][NextLive]_vars /\ SchedulerFairness

\* The scheduler loop with several start requests, so that one pass of the
\* scheduler collects more than one due job.  The clock stands still.
NextBatch ==
    \/ \E c \in BatchRequests \cup {Scheduler} : StartMarkStarting(c)
    \/ \E c \in BatchRequests \cup {Scheduler} : StartSpawn(c)
    \/ \E c \in BatchRequests \cup {Scheduler} : StartMarkRunning(c)
    \/ \E p \in Procs : ChildExit(p)
    \/ \E p \in Procs : ReadEof(p, "out")
    \/ \E r \in BatchRequests : ReqSlotCheck(r)
    \/ \E r \in BatchRequests : ReqCreateJob(r)
    \/ \E r \in BatchRequests : ReqInsert(r)
    \/ SchedSnapshot
    \/ SchedEvaluate

BatchSpec == Init /\ [][NextBatch]_vars

\* The registry under start requests and removal requests that run against
\* each other, without the scheduler.
NextRegistry ==
    \/ \E r \in BatchRequests : StartMarkStarting(r)
    \/ \E r \in BatchRequests : StartSpawn(r)
    \/ \E r \in BatchRequests : StartMarkRunning(r)
    \/ \E p \in Procs : ChildExit(p)
    \/ \E p \in Procs : ReadEof(p, "out")
    \/ \E r \in BatchRequests : ReqSlotCheck(r)
    \/ \E r \in BatchRequests : ReqCreateJob(r)
    \/ \E r \in BatchRequests : ReqInsert(r)
    \/ \E s \in ConcurrentStops, id \in RegistryIds : RemoveRecorder(s, id)
    \/ \E s \in ConcurrentStops : StopMarkStopping(s)
    \/ \E s \in ConcurrentStops : StopKill(s)
    \/ \E s \in ConcurrentStops : StopMarkStopped(s)

RegistrySpec == Init /\ [][NextRegistry]_vars

\* create_job and get_next_free_id on their own, over every set of ids in
\* use.  The jobs are fresh Idle jobs, each under its own id; a start
\* request has passed its checks and is about to call create_job.
Rank(K, k) == Cardinality({ j \in K : j <= k })

RegistryOf(K) == [k \in K |-> Rank(K, k)]

JobsOf(K) ==
    [h \in 1..Cardinality(K) |->
        JobNew(CHOOSE k \in K : Rank(K, k) = h, CHOOSE uid \in Uids : TRUE,
               CHOOSE st \in SettingsChoices : validate(st) = "Ok")]

IdInit ==
    /\ now = 1
    /\ debug_assertions \in BOOLEAN
    /\ \E K \in SUBSET (ID_MIN..ID_MAX) :
          /\ registry = RegistryOf(K)
          /\ jobs = JobsOf(K)
    /\ procs = << >>
    /\ reqs = [r \in Requests \cup BatchRequests |->
                 IF r = 1
                 THEN [NoCall EXCEPT !.pc = "create_job",
                                     !.settings = CHOOSE st \in SettingsChoices :
                                                      validate(st) = "Ok"]
                 ELSE NoCall]
    /\ stops = [s \in StopCalls \cup ConcurrentStops |-> NoStop]
    /\ sched = [pc |-> "snapshot", snapshot |-> << >>, due |-> << >>,
                job |-> 0, child |-> 0]
    /\ info = NoInfo
    /\ locks = { }

NextId == \E r \in Requests : ReqCreateJob(r)

IdSpec == IdInit /\ [][NextId]_vars

\* The log of one running job while its child writes line after line to
\* stdout.  The job has been started by its start_recorder request; the text
\* of the n-th line is the number n.
RunningJob ==
    LET st == CHOOSE x \in SettingsChoices : validate(x) = "Ok"
        job == JobNew(ID_MIN, CHOOSE uid \in Uids : TRUE, st)
    IN  mark_running(mark_starting(job, FALSE).job, 1, 1, FALSE).job

LogInit ==
    /\ now = 1
    /\ debug_assertions \in BOOLEAN
    /\ registry = RegistryOf({ID_MIN})
    /\ jobs = << RunningJob >>
    /\ procs = << [ job |-> 1, by |-> "api", exited |-> FALSE, killed |-> FALSE,
                    attached |-> TRUE, relaunch |-> FALSE, wrote |-> 0,
                    out |-> 0, err |-> 0, rdOut |-> "reading",
                    rdErr |-> "reading", marked |-> 0 ] >>
    /\ reqs = [r \in Requests \cup BatchRequests |->
                 IF r = 1
                 THEN [NoCall EXCEPT !.pc = "done", !.settings = RunningJob.settings,
                                     !.job = 1, !.child = 1, !.resp = "ok"]
                 ELSE NoCall]
    /\ stops = [s \in StopCalls \cup ConcurrentStops |-> NoStop]
    /\ sched = [pc |-> "snapshot", snapshot |-> << >>, due |-> << >>,
                job |-> 0, child |-> 0]
    /\ info = NoInfo
    /\ locks = { }

\* The child writes its next line to stdout, and read_output locks the job
\* and pushes it: job.push_log(format!("<{}> {}", pipe_tag, line)).
StdoutLine(p) ==
    /\ ~procs[p].exited /\ procs[p].rdOut = "reading"
    /\ procs[p].wrote < MaxLogLines
    /\ procs' = [procs EXCEPT ![p].wrote = @ + 1]
    /\ jobs' = [jobs EXCEPT ![procs[p].job] =
                  push_log(@, LogLine("STDOUT", ToString(procs[p].wrote + 1)), now)]
    /\ JobSection(<< "out", p >>, procs[p].job)
    /\ UNCHANGED << now, debug_assertions, registry, reqs, stops, sched, info >>

NextLog == \E p \in Procs : StdoutLine(p)

LogSpec == LogInit /\ [][NextLog]_vars

\* The display view of a job's log (JobInfo::from), built by a status
\* request, over logs of 0 to MaxViewEntries entries whose texts are shorter
\* than, as long as and longer than MAX_LOG_LENGTH, in ASCII and with
\* characters of more than one byte around byte MAX_LOG_LENGTH.
TextChoices ==
    << Ascii(9),
       Ascii(MAX_LOG_LENGTH - 1),
       Ascii(MAX_LOG_LENGTH),
       Ascii(MAX_LOG_LENGTH + 1),
       Ascii(MAX_LOG_LENGTH + 50),
       Ascii(MAX_LOG_LENGTH - 2) \o Wide(1, 2) \o Ascii(5),
       Ascii(MAX_LOG_LENGTH - 1) \o Wide(1, 2) \o Ascii(5),
       Ascii(8) \o Wide(120, 3) >>

\* A log of n entries: the texts of TextChoices in turn, from the o-th on.
LogOf(n, o) == [i \in 1..n |-> TextChoices[((i + o) % Len(TextChoices)) + 1]]

ViewInit ==
    /\ now = 1
    /\ debug_assertions \in BOOLEAN
    /\ registry = RegistryOf({ID_MIN})
    /\ \E n \in 0..MaxViewEntries, o \in 1..Len(TextChoices) :
          jobs = << [RunningJob EXCEPT !.logs = LogOf(n, o)] >>
    /\ procs = << [ job |-> 1, by |-> "api", exited |-> FALSE, killed |-> FALSE,
                    attached |-> TRUE, relaunch |-> FALSE, wrote |-> 0,
                    out |-> 0, err |-> 0, rdOut |-> "reading",
                    rdErr |-> "reading", marked |-> 0 ] >>
    /\ reqs = [r \in Requests \cup BatchRequests |->
                 IF r = 1
                 THEN [NoCall EXCEPT !.pc = "done", !.settings = RunningJob.settings,
                                     !.job = 1, !.child = 1, !.resp = "ok"]
                 ELSE NoCall]
    /\ stops = [s \in StopCalls \cup ConcurrentStops |-> NoStop]
    /\ sched = [pc |-> "snapshot", snapshot |-> << >>, due |-> << >>,
                job |-> 0, child |-> 0]
    /\ info = NoInfo
    /\ locks = { }

\* recorder_status_one (api.rs): look the job up, lock it and build its
\* JobInfo, whose logs are value.logs.get_truncated().
RecorderStatusOne(id) ==
    /\ info.pc = "new"
    /\ id \in DOMAIN registry
    /\ LET view == Logs_get_truncated(jobs[registry[id]].logs)
       IN  info' = [pc |-> IF view.res = "ok" THEN "done" ELSE "panicked",
                    job |-> registry[id],
                    logs |-> view.logs]
    /\ SectionsInTurn(<< "status", 0 >>, RegistryLock, JobLock(registry[id]))
    /\ UNCHANGED << now, debug_assertions, registry, jobs, procs, reqs, stops, sched >>

NextView == \E id \in RequestIds : RecorderStatusOne(id)

ViewSpec == ViewInit /\ [][NextView]_vars

\* settings.validate() on its own: a start request with any zoom of a u8 and
\* a frequency from the whole range of a u32.
FreqChoices ==
    { u32(0), u32(147500), u32(10000000), u32(15000000), u32(16681359),
      u32(MAX_FREQ), u32(MAX_FREQ + 1), [hi |-> LIMB \div 2, lo |-> 0],
      saturating_add_u32(u32_sub(U32_MAX, u32(MAX_FREQ)), u32(1)), U32_MAX }

\* 30_000_000 / 2^zoom by halving zoom times.
RECURSIVE Halved(_, _)
Halved(n, zoom) == IF zoom = 0 THEN n ELSE Halved(n \div 2, zoom - 1)

\* The frequencies at the two ends of the range that a zoom accepts, and
\* their neighbours.
EdgeFreqs(zoom) ==
    LET half == Halved(MAX_FREQ - MIN_FREQ, zoom) \div 2
    IN  { u32(f) : f \in { g \in { half - 1, half, half + 1, MAX_FREQ - half - 1,
                                     MAX_FREQ - half, MAX_FREQ - half + 1 } : g >= 0 } }

ValidateChoices ==
    { [frequency |-> f, zoom |-> z, interval |-> None] :
        f \in FreqChoices, z \in 0..U8_MAX }
    \cup UNION { { [frequency |-> f, zoom |-> z, interval |-> None] : f \in EdgeFreqs(z) } :
                 z \in 0..MAX_ZOOM }

NextValidate == \E r \in Requests, s \in ValidateChoices : StartRecorderChecks(r, s)

ValidateSpec == Init /\ [][NextValidate]_vars

\* The scheduler loop, the start requests and the children, whose lines on
\* stdout the reader task may fail to read.
NextStream ==
    \/ Tick
    \/ \E c \in Callers : StartMarkStarting(c)
    \/ \E c \in Callers : StartSpawn(c)
    \/ \E c \in Callers : StartMarkRunning(c)
    \/ \E p \in Procs : ChildWrite(p, "out")
    \/ \E p \in Procs : ChildExit(p)
    \/ \E p \in Procs : ReadLine(p, "out")
    \/ \E p \in Procs : ReadEof(p, "out")
    \/ \E p \in Procs : ReadErr(p, "out")
    \/ \E r \in Requests : ReqSlotCheck(r)
    \/ \E r \in Requests : ReqCreateJob(r)
    \/ \E r \in Requests : ReqInsert(r)
    \/ SchedSnapshot
    \/ SchedEvaluate

StreamSpec == Init /\ [][NextStream]_vars

\* start_recorder requests that run against each other while the registry
\* is one job short of MAX_JOB_SLOTS.  The jobs of the registry are one-shot
\* jobs that have run and ended, as mark_exited leaves them; their children
\* are gone, and procs holds the children spawned from here on.
EndedJob(job_id) ==
    LET st == CHOOSE x \in SettingsChoices : validate(x) = "Ok" /\ x.interval = None
        job == JobNew(job_id, CHOOSE uid \in Uids : TRUE, st)
    IN  mark_exited(mark_running(mark_starting(job, FALSE).job, 0, 1, FALSE).job,
                    1, FALSE).job

SlotInit ==
    /\ now = 1
    /\ debug_assertions \in BOOLEAN
    /\ \E K \in SUBSET (ID_MIN..MAX_JOB_SLOTS) :
          /\ Cardinality(K) = MAX_JOB_SLOTS - 1
          /\ registry = RegistryOf(K)
          /\ jobs = [h \in 1..Cardinality(K) |->
                       EndedJob(CHOOSE k \in K : Rank(K, k) = h)]
    /\ procs = << >>
    /\ reqs = [r \in Requests \cup BatchRequests |-> NoCall]
    /\ stops = [s \in StopCalls \cup ConcurrentStops |-> NoStop]
    /\ sched = [pc |-> "snapshot", snapshot |-> << >>, due |-> << >>,
                job |-> 0, child |-> 0]
    /\ info = NoInfo
    /\ locks = { }

NextSlot ==
    \/ \E r \in BatchRequests : ReqSlotCheck(r)
    \/ \E r \in BatchRequests : ReqCreateJob(r)
    \/ \E r \in BatchRequests : StartMarkStarting(r)
    \/ \E r \in BatchRequests : StartSpawn(r)
    \/ \E r \in BatchRequests : StartMarkRunning(r)
    \/ \E r \in BatchRequests : ReqInsert(r)
    \/ \E p \in Procs : ChildExit(p)
    \/ \E p \in Procs : ReadEof(p, "out")

SlotSpec == SlotInit /\ [][NextSlot]_vars

\* Job::start and Job::stop of the requests with the child and its two
\* reader tasks, each followed to the end of its stream.
NextReader ==
    \/ \E r \in Requests : ReqSlotCheck(r)
    \/ \E r \in Requests : ReqCreateJob(r)
    \/ \E r \in Requests : StartMarkStarting(r)
    \/ \E r \in Requests : StartSpawn(r)
    \/ \E r \in Requests : StartMarkRunning(r)
    \/ \E r \in Requests : ReqInsert(r)
    \/ \E p \in Procs, st \in Streams : ChildWrite(p, st)
    \/ \E p \in Procs : ChildExit(p)
    \/ \E p \in Procs, st \in Streams : ReadLine(p, st)
    \/ \E p \in Procs, st \in Streams : ReadEof(p, st)
    \/ \E s \in StopCalls, id \in RequestIds : StopRecorder(s, id)
    \/ \E s \in StopCalls : StopMarkStopping(s)
    \/ \E s \in StopCalls : StopKill(s)
    \/ \E s \in StopCalls : StopMarkStopped(s)

ReaderSpec == Init /\ [][NextReader]_vars

\* The same with each mutex.lock() as a step of its own: between that step
\* and the section the task holds the guard, and the other tasks wait.
NextJobLock ==
    \/ NextReader
    \/ \E task \in Tasks : Lock(task)

JobLockSpec == Init /\ [][NextJobLock]_vars

\* The handlers that work on the registry, the scheduler and the status
\* request, with each mutex.lock() as a step of its own.
NextRegistryLock ==
    \/ \E r \in Requests : ReqSlotCheck(r)
    \/ \E r \in Requests : ReqCreateJob(r)
    \/ \E c \in Callers : StartMarkStarting(c)
    \/ \E c \in Callers : StartSpawn(c)
    \/ \E c \in Callers : StartMarkRunning(c)
    \/ \E r \in Requests : ReqInsert(r)
    \/ \E p \in Procs : ChildExit(p)
    \/ \E p \in Procs : ReadEof(p, "out")
    \/ \E s \in StopCalls, id \in RequestIds : StopRecorder(s, id)
    \/ \E s \in StopCalls, id \in RequestIds : RemoveRecorder(s, id)
    \/ \E s \in StopCalls : StopMarkStopping(s)
    \/ \E s \in StopCalls : StopKill(s)
    \/ \E s \in StopCalls : StopMarkStopped(s)
    \/ SchedSnapshot
    \/ SchedEvaluate
    \/ StatusAllCollect
    \/ StatusAllJob
    \/ \E task \in Tasks : Lock(task)

RegistryLockSpec == Init /\ [][NextRegistryLock]_vars

\* to_scientific on its own: 0, the frequencies of the tests, the shortest
\* and the longest numbers, powers of ten and their neighbours, and runs of
\* numbers of five and of eight digits in steps of half a thousandth of the
\* mantissa, which alternate between values of 3 decimals and values halfway
\* between two of them.
SciChoices ==
    { 0, 1, 7, 9475000, 947500, 16490000, 15000000, 147500, MAX_FREQ,
      1234567, 9999499, 9999500, 99995, 99994, 2147483647 }
    \cup { Pow10(k) : k \in 0..9 }
    \cup { Pow10(k) - 1 : k \in 1..9 }
    \cup { Pow10(k) + 1 : k \in 1..9 }
    \cup { 10000 + 5 * i : i \in 0..MaxSamples }
    \cup { 10600 + 5 * i : i \in 0..MaxSamples }
    \cup { 10000000 + 5000 * i : i \in 0..MaxSamples }

SciInit ==
    /\ now = 1
    /\ debug_assertions \in BOOLEAN
    /\ registry = << >>
    /\ jobs = << >>
    /\ procs = << >>
    /\ reqs = [r \in Requests \cup BatchRequests |-> NoCall]
    /\ stops = [s \in StopCalls \cup ConcurrentStops |-> NoStop]
    /\ sched = [pc |-> "snapshot", snapshot |-> << >>, due |-> << >>,
                job |-> 0, child |-> 0]
    /\ \E num \in SciChoices : info = [pc |-> "new", num |-> num, text |-> ""]
    /\ locks = { }

\* get_filename (job.rs) writes to_scientific(self.frequency) into the name.
ToScientific ==
    /\ info.pc = "new"
    /\ info' = [info EXCEPT !.pc = "done", !.text = to_scientific(info.num)]
    /\ UNCHANGED << now, debug_assertions, registry, jobs, procs, reqs, stops, sched, locks >>

NextSci == ToScientific

SciSpec == SciInit /\ [][NextSci]_vars

-----------------------------------------------------------------------------
\* Vocabulary of the properties.

JobHandles == 1..Len(jobs)

Contains(logs, data) == \E i \in 1..Len(logs) : logs[i] = data

\* Caller c is inside Job::start and takes its mark_starting step now.
TakesMarkStarting(c) ==
    IF c = Scheduler
    THEN sched.pc = "mark_starting" /\ sched' # sched
    ELSE reqs[c].pc = "mark_starting" /\ reqs'[c] # reqs[c]

StartJob(c) == IF c = Scheduler THEN sched.job ELSE reqs[c].job

\* In this step the Job::start of caller c returns the "Job not idle" error:
\* start_recorder answers with it, the scheduler goes on with its loop.
ReturnsNotIdle(c) ==
    IF c = Scheduler
    THEN sched'.pc \notin {"spawn", "panicked"}
    ELSE reqs'[c].pc = "done" /\ reqs'[c].resp = "not_idle"

\* C1: Job::start on a job that is not Idle returns the "not idle" error and
\* leaves the job (status, process, started_at, next_run_start, log) as it was.
C1_StartOnNonIdleFails ==
    [][\A c \in Callers :
         (TakesMarkStarting(c) /\ jobs[StartJob(c)].status # "Idle")
           => (ReturnsNotIdle(c) /\ jobs' = jobs /\ procs' = procs)]_vars

\* C2: Job::stop on a job that is not Running returns the "not running"
\* error, kills no process and leaves the job as it was.
C2_StopOnNonRunningFails ==
    [][\A s \in DOMAIN stops :
         (stops[s].pc = "mark_stopping" /\ stops'[s] # stops[s]
            /\ jobs[stops[s].job].status # "Running")
           => (stops'[s].pc = "done" /\ stops'[s].resp = "not_running"
                 /\ jobs' = jobs /\ procs' = procs)]_vars

\* Stop calls have failed on an Idle, on a Starting and on a Stopping job.
C2_Witness ==
    \E s \in DOMAIN stops :
        /\ stops[s].resp = "not_running"
        /\ jobs[stops[s].job].status = "Stopping"

\* No stop or removal request has reached job h.
NoStopOn(h) == \A s \in DOMAIN stops : stops[s].job # h

\* The run of child p is over: Job::start returned Ok for it, the child
\* exited without being killed and its stdout task has ended.
RunEndedOnItsOwn(p) ==
    /\ procs[p].attached
    /\ procs[p].exited /\ ~procs[p].killed
    /\ procs[p].rdOut # "reading"
    /\ NoStopOn(procs[p].job)

\* C3: after a successful start whose child exits on its own, the job leaves
\* Running (its status returns to Idle) and its log holds an "Exited" entry
\* and no "Stopped Manually" entry, whenever the child exits.
C3_NaturalExitReturnsToIdle ==
    \A p \in Procs :
        RunEndedOnItsOwn(p)
          => /\ jobs[procs[p].job].process # Some(p)
             /\ Contains(jobs[procs[p].job].logs, "<Exited>")
             /\ ~Contains(jobs[procs[p].job].logs, "<Stopped Manually>")

\* C4: when a stop call returns success the job is Idle, has no process
\* attached and its log holds a "Stopped Manually" entry.
C4_StopReturnsIdle ==
    [][\A s \in DOMAIN stops :
         (stops[s].pc = "mark_stopped" /\ stops'[s].pc = "done")
           => LET job == jobs'[stops[s].job]
              IN  /\ job.status = "Idle"
                  /\ job.process = None
                  /\ Contains(job.logs, "<Stopped Manually>")]_vars

\* The stop returned success after the stdout task had already run mark_exited.
C4_Witness ==
    \E s \in DOMAIN stops :
        /\ stops[s].resp = "ok"
        /\ \E i \in 1..Len(jobs[stops[s].job].logs) :
             /\ jobs[stops[s].job].logs[i] = "<Exited>"
             /\ \E j \in (i + 1)..Len(jobs[stops[s].job].logs) :
                  jobs[stops[s].job].logs[j] = "<Stopped Manually>"

\* Caller c is inside Job::start and its spawn fails in this step.
SpawnFails(c) ==
    IF c = Scheduler
    THEN sched.pc = "spawn" /\ sched'.pc # "spawn" /\ sched'.pc # "mark_running"
    ELSE reqs[c].pc = "spawn" /\ reqs'[c].pc = "done"

\* C5: when the spawn inside Job::start fails, start returns the error and
\* the job is back to Idle.
C5_SpawnFailureReconciled ==
    [][\A c \in Callers :
         SpawnFails(c) => jobs'[StartJob(c)].status = "Idle"]_vars

\* The callers that are between a successful mark_starting and mark_running
\* of Job::start on job h.
StartsInFlight(h) ==
    { c \in Callers :
        /\ (IF c = Scheduler THEN sched.pc ELSE reqs[c].pc) \in {"spawn", "mark_running"}
        /\ StartJob(c) = h }

\* C6: at most one Job::start per job is between its mark_starting and its
\* mark_running.
C6_AtMostOneStartInFlight ==
    \A h \in JobHandles : Cardinality(StartsInFlight(h)) <= 1

TakesMarkRunning(c) ==
    IF c = Scheduler
    THEN sched.pc = "mark_running" /\ sched'.pc # "mark_running" /\ sched'.pc # "panicked"
    ELSE reqs[c].pc = "mark_running" /\ reqs'[c].pc = "insert"

\* C7: mark_running at time T sets started_at = T and next_run_start = T + i
\* for an interval i that is present and not 0, and next_run_start = none for
\* an interval that is absent or 0.
C7_MarkRunningSchedulesNextRun ==
    [][\A c \in Callers :
         TakesMarkRunning(c)
           => LET job == jobs'[StartJob(c)]
                  i == job.settings.interval
              IN  /\ job.status = "Running"
                  /\ job.started_at = Some(now)
                  /\ (i # None /\ i # Some(0)) => job.next_run_start = Some(now + i[1])
                  /\ (i = None \/ i = Some(0)) => job.next_run_start = None]_vars

C7_Witness ==
    \E h \in JobHandles :
        /\ jobs[h].status = "Running"
        /\ jobs[h].settings.interval = Some(1)
        /\ jobs[h].started_at = Some(now)
        /\ jobs[h].next_run_start = Some(now + 1)

\* C8: is_waiting_to_start() is true exactly when the job is Idle, has no
\* process and next_run_start is absent or reached; before next_run_start
\* it is false whatever the status.
C8_IsWaitingToStart ==
    \A h \in JobHandles : \A t \in 0..(MaxTime + 1) :
        /\ is_waiting_to_start(jobs[h], t)
             <=> /\ jobs[h].status = "Idle"
                 /\ jobs[h].process = None
                 /\ (jobs[h].next_run_start = None \/ jobs[h].next_run_start[1] <= t)
        /\ (jobs[h].next_run_start # None /\ t < jobs[h].next_run_start[1])
             => ~is_waiting_to_start(jobs[h], t)

\* A repeating job is Idle and its next run is still ahead.
C8_Witness ==
    \E h \in JobHandles :
        /\ jobs[h].status = "Idle"
        /\ jobs[h].process = None
        /\ jobs[h].next_run_start # None
        /\ now < jobs[h].next_run_start[1]
        /\ ~is_waiting_to_start(jobs[h], now)

IsOneShot(job) == job.settings.interval = None \/ job.settings.interval = Some(0)

\* C9: the scheduler launches no child for a one-shot job (interval absent
\* or 0) whose earlier child has exited or been stopped.
C9_OneShotNotRelaunched ==
    \A q \in Procs :
        (procs[q].by = "sched" /\ procs[q].relaunch) => ~IsOneShot(jobs[procs[q].job])

\* Job h is in the registry and due: Idle, no process, next_run_start absent
\* or reached.
Due(h) ==
    /\ h \in JobHandles
    /\ h \in Handles(registry)
    /\ is_waiting_to_start(jobs[h], now)

\* The scheduler passes job h to Job::start.
SchedulerStarts(h) == sched.pc = "mark_starting" /\ sched.job = h

\* C10: under fair scheduling of the scheduler loop, a job that stays in the
\* registry and is due is eventually passed to start by the scheduler.
C10_DueJobEventuallyStarted ==
    \A h \in 1..MaxRequests : Due(h) ~> (SchedulerStarts(h) \/ ~Due(h))

\* The Job::start that the scheduler called fails in this step: mark_starting
\* does not let it through, the spawn fails, or mark_running does.
SchedulerStartFails ==
    \/ sched.pc = "mark_starting" /\ sched' # sched /\ sched'.pc # "spawn"
    \/ sched.pc = "spawn" /\ sched' # sched /\ sched'.pc # "mark_running"
    \/ sched.pc = "mark_running" /\ sched'.pc = "panicked"

\* C11: when the start of one due job fails, the scheduler goes on to call
\* start on the next job it collected in this pass, and after the last one
\* it goes on to its next pass.
C11_StartFailureDoesNotStopScheduler ==
    [][SchedulerStartFails
         => IF sched.due = << >>
            THEN sched'.pc = "snapshot"
            ELSE /\ sched'.pc = "mark_starting"
                 /\ sched'.job = Head(sched.due)
                 /\ sched'.due = Tail(sched.due)]_vars

\* Request r takes its create_job step now, and create_job returns.
TakesCreateJob(r) == reqs[r].pc = "create_job" /\ reqs'[r].pc = "mark_starting"

\* C12: create_job inserts exactly one new job into the registry and
\* returns its handle; the new job is Idle with no process, no started_at,
\* no next_run_start and an empty log, no child is spawned for it, and
\* every other registry entry and every other job is unchanged.
C12_CreateJobInsertsOneIdleJob ==
    [][\A r \in DOMAIN reqs :
         TakesCreateJob(r)
           => LET h == reqs'[r].job
                  new == DOMAIN registry' \ DOMAIN registry
              IN  /\ Cardinality(new) = 1
                  /\ \A k \in new : registry'[k] = h /\ jobs'[h].job_id = k
                  /\ DOMAIN registry \subseteq DOMAIN registry'
                  /\ \A k \in DOMAIN registry : registry'[k] = registry[k]
                  /\ h \notin JobHandles
                  /\ \A g \in JobHandles : jobs'[g] = jobs[g]
                  /\ jobs'[h].status = "Idle"
                  /\ jobs'[h].process = None
                  /\ jobs'[h].started_at = None
                  /\ jobs'[h].next_run_start = None
                  /\ jobs'[h].logs = << >>
                  /\ procs' = procs]_vars

\* A job has just been created next to a job that is already running.
C12_Witness ==
    \E r \in DOMAIN reqs :
        /\ reqs[r].pc = "mark_starting"
        /\ jobs[reqs[r].job].status = "Idle"
        /\ \E k \in DOMAIN registry :
              registry[k] # reqs[r].job /\ jobs[registry[k]].status = "Running"

\* No two entries of the registry share a job or an id.
UniqueIds ==
    \A k1, k2 \in DOMAIN registry :
        k1 # k2 => /\ registry[k1] # registry[k2]
                   /\ jobs[registry[k1]].job_id # jobs[registry[k2]].job_id

\* C13: however create_job calls interleave, each call receives an id that
\* is no key of the registry at that moment and overwrites no entry, and no
\* two entries of the registry share an id.
C13_CreateJobIdsUnique ==
    /\ []UniqueIds
    /\ [][\A r \in DOMAIN reqs :
             TakesCreateJob(r)
               => /\ jobs'[reqs'[r].job].job_id \notin DOMAIN registry
                  /\ \A k \in DOMAIN registry :
                        k \in DOMAIN registry' /\ registry'[k] = registry[k]]_vars

\* A second create_job ran while the first request was still inside its
\* Job::start, and both jobs are in the registry.
C13_Witness ==
    /\ reqs[1].pc \in {"spawn", "mark_running", "insert"}
    /\ reqs[2].pc = "mark_starting"
    /\ Cardinality(DOMAIN registry) = 2
    /\ \E k \in DOMAIN registry : registry[k] = reqs[2].job
    /\ \E k \in DOMAIN registry : registry[k] = reqs[1].job

\* The ids of the id type that are no key of the registry.
FreeIds(map) == { id \in ID_MIN..ID_MAX : id \notin DOMAIN map }

\* C14: the id that get_next_free_id returns is the smallest id, counting
\* from 0, that is no key of the registry: 3 over {0,1,2}, 0 over {} and 0
\* over {1}; and create_job inserts the new job under that id.
C14_SmallestFreeId ==
    /\ [](/\ DOMAIN registry = {0, 1, 2} => get_next_free_id(registry) = Some(3)
          /\ DOMAIN registry = {} => get_next_free_id(registry) = Some(0)
          /\ DOMAIN registry = {1} => get_next_free_id(registry) = Some(0)
          /\ get_next_free_id(registry) # None
               => /\ get_next_free_id(registry)[1] \in FreeIds(registry)
                  /\ \A id \in FreeIds(registry) : get_next_free_id(registry)[1] <= id)
    /\ [][\A r \in DOMAIN reqs :
             TakesCreateJob(r)
               => /\ jobs'[reqs'[r].job].job_id \in FreeIds(registry)
                  /\ \A id \in FreeIds(registry) : jobs'[reqs'[r].job].job_id <= id]_vars

\* create_job has reused the id 0 while larger ids are in use.
C14_Witness ==
    /\ reqs[1].pc = "mark_starting"
    /\ jobs[reqs[1].job].job_id = 0
    /\ DOMAIN registry = {0, 1, 2}

\* C15: get_next_free_id fails (and create_job panics) only if every value
\* of the id type, its maximum included, is a key of the registry.
C15_FailsOnlyWhenExhausted ==
    [][\A r \in DOMAIN reqs :
         (reqs[r].pc = "create_job" /\ reqs'[r].pc = "panicked")
           => FreeIds(registry) = {}]_vars

\* A removal request arrives as s in this step.
RemovalArrives(s) == stops[s].pc = "new" /\ stops'[s].kind = "remove"

\* C16: a removal request for id k removes the entry k if it is present and
\* answers "not found" otherwise, leaving the registry and every job as they
\* were; neither that step nor the stop that follows it touches an entry
\* with another id or another job.
C16_RemoveOnlyThatEntry ==
    [][\A s \in DOMAIN stops :
         /\ RemovalArrives(s)
              => LET k == stops'[s].id
                 IN  IF k \in DOMAIN registry
                     THEN /\ DOMAIN registry' = DOMAIN registry \ {k}
                          /\ \A j \in DOMAIN registry' : registry'[j] = registry[j]
                          /\ stops'[s].job = registry[k]
                          /\ jobs' = jobs
                     ELSE /\ stops'[s].pc = "done"
                          /\ stops'[s].resp = "not_found"
                          /\ registry' = registry
                          /\ jobs' = jobs
                          /\ procs' = procs
         /\ (stops[s].kind = "remove" /\ stops'[s] # stops[s])
              => /\ registry' = registry
                 /\ \A h \in JobHandles : h # stops[s].job => jobs'[h] = jobs[h]]_vars

\* One removal has removed a job and stopped it while another job stayed in
\* the registry, and another removal has found no job under its id.
C16_Witness ==
    \E s1, s2 \in DOMAIN stops :
        /\ stops[s1].kind = "remove" /\ stops[s1].resp = "ok"
        /\ stops[s1].id \notin DOMAIN registry
        /\ stops[s2].kind = "remove" /\ stops[s2].resp = "not_found"
        /\ \E k \in DOMAIN registry : jobs[registry[k]].status = "Running"

\* The removal request s has removed a job and answered with success.
RemovalCompleted(s) ==
    stops[s].kind = "remove" /\ stops[s].pc = "done" /\ stops[s].resp = "ok"

\* C17: once a removal request for a job has completed, no child process of
\* the removed job is running, whatever the job's status was when the
\* request arrived and however start and the scheduler interleave with it.
\* Stated for the jobs with an interval, which the scheduler is meant to
\* start again while they are in the registry.
C17_RemovedJobHasNoProcess ==
    \A s \in DOMAIN stops :
        (RemovalCompleted(s) /\ ~IsOneShot(jobs[stops[s].job]))
          => \A p \in Procs : procs[p].job = stops[s].job => procs[p].exited

\* The i-th entry pushed to the log of the job of LogSpec.
PushedEntry(i) ==
    IF i = 1 THEN "<Started>"
    ELSE IF i = 2 THEN "<Settings>"
    ELSE LogLine("STDOUT", ToString(i - 2))

\* C18: the log holds at most 999 entries, in the order they were pushed: a
\* push onto a log of 999 entries drops the oldest entry and keeps the other
\* 998 and the new one, so after n pushes the log is the last min(n, 999)
\* entries pushed.
C18_LogKeepsLast999 ==
    /\ [](\A h \in JobHandles :
            LET logs == jobs[h].logs
                n == procs[1].wrote + 2
            IN  /\ Len(logs) <= 999
                /\ Len(logs) = Min(n, 999)
                /\ \A i \in 1..Len(logs) : logs[i] = PushedEntry(n - Len(logs) + i))
    /\ [][\A h \in JobHandles :
             (jobs'[h].logs # jobs[h].logs /\ Len(jobs[h].logs) = 999)
               => /\ Len(jobs'[h].logs) = 999
                  /\ SubSeq(jobs'[h].logs, 1, 998) = Tail(jobs[h].logs)]_vars

\* 1000 entries have been pushed: the first one is gone, the second one is
\* the oldest of 999.
C18_Witness ==
    /\ procs[1].wrote + 2 = 1000
    /\ Len(jobs[1].logs) = 999
    /\ jobs[1].logs[1] = "<Settings>"
    /\ jobs[1].logs[999] = LogLine("STDOUT", ToString(998))

\* The first k characters of a text.
RECURSIVE Take(_, _)
Take(text, k) ==
    IF k = 0 \/ text = << >> THEN << >>
    ELSE IF Head(text).n <= k
    THEN Cat(<< Head(text) >>, Take(Tail(text), k - Head(text).n))
    ELSE Wide(k, Head(text).w)

RECURSIVE Chars(_)
Chars(text) == IF text = << >> THEN 0 ELSE Head(text).n + Chars(Tail(text))

\* C19: the display view of a log of n entries is returned with min(n, 20)
\* entries, which are the most recent entries of the log (newest first);
\* an entry's text of at most 200 bytes is returned as it is, a longer one
\* as its first 200 bytes and the "..." marker; building the view leaves
\* the log as it was.
C19_DisplayView ==
    [][(info.pc = "new" /\ info' # info)
         => LET logs == jobs[info'.job].logs
                n == Len(logs)
            IN  /\ info'.pc = "done"
                /\ Len(info'.logs) = Min(n, 20)
                /\ \A i \in 1..Len(info'.logs) :
                      LET text == logs[n - i + 1]
                          shown == info'.logs[i]
                      IN  /\ str_len(shown) <= 200 + 3
                          /\ str_len(text) <= 200 => shown = text
                          /\ str_len(text) > 200
                               => \E k \in 0..Chars(text) :
                                     /\ str_len(Take(text, k)) = 200
                                     /\ shown = Cat(Take(text, k), Ascii(3))
                /\ jobs' = jobs]_vars

\* C20: validate() returns ZoomTooHigh for every zoom above 31, whatever the
\* frequency is, also for a frequency that is out of range for every zoom:
\* the request is answered with that error and creates no job.
C20_ZoomTooHighFirst ==
    /\ \A st \in ValidateChoices : st.zoom > 31 => validate(st) = "ZoomTooHigh"
    /\ \A r \in DOMAIN reqs :
          (reqs[r].settings # None /\ reqs[r].settings.zoom > 31
             /\ reqs[r].resp # "slots_full")
            => /\ reqs[r].pc = "done"
               /\ reqs[r].resp = "ZoomTooHigh"
               /\ reqs[r].job = 0

\* A request with zoom 32 and the frequency u32::MAX has been answered.
C20_Witness ==
    \E r \in DOMAIN reqs :
        /\ reqs[r].pc = "done"
        /\ reqs[r].settings # None
        /\ reqs[r].settings.zoom = 32
        /\ reqs[r].settings.frequency = U32_MAX
        /\ reqs[r].resp = "ZoomTooHigh"

\* f + bandwidth/2 > 30_000_000 and f - bandwidth/2 < 0 over the integers,
\* for a frequency f of 32 bits and half a bandwidth of at most 15_000_000.
WindowAboveMax(f, half) ==
    IF ~fits_int(f) \/ to_int(f) > MAX_FREQ THEN TRUE ELSE to_int(f) + half > MAX_FREQ
WindowBelowMin(f, half) ==
    IF ~fits_int(f) THEN FALSE ELSE to_int(f) - half < MIN_FREQ

\* C21: for every zoom in 0..31 and every frequency f, with bandwidth =
\* 30_000_000 / 2^zoom, validate() returns Ok exactly when f + bandwidth/2
\* <= 30_000_000 and f - bandwidth/2 >= 0, FrequencyAboveMax when the first
\* fails and FrequencyBelowMin when the second fails; start_recorder goes on
\* to create the job in the first case only.
C21_ValidateWindow ==
    \A r \in DOMAIN reqs :
        (reqs[r].settings # None /\ reqs[r].settings.zoom <= 31
           /\ reqs[r].resp # "slots_full")
          => LET st == reqs[r].settings
                 half == Halved(30000000, st.zoom) \div 2
                 above == WindowAboveMax(st.frequency, half)
                 below == WindowBelowMin(st.frequency, half)
             IN  /\ validate(st) = "Ok" <=> (~above /\ ~below)
                 /\ above => validate(st) = "FrequencyAboveMax"
                 /\ below => validate(st) = "FrequencyBelowMin"
                 /\ reqs[r].pc # "new"
                      => IF validate(st) = "Ok"
                         THEN reqs[r].job # 0 \/ reqs[r].pc = "create_job"
                         ELSE reqs[r].pc = "done" /\ reqs[r].resp = validate(st)

\* A request with zoom 2 and the frequency 147_500, whose window starts
\* below 0, has been answered FrequencyBelowMin.
C21_Witness ==
    \E r \in DOMAIN reqs :
        /\ reqs[r].pc = "done"
        /\ reqs[r].settings # None
        /\ reqs[r].settings.zoom = 2
        /\ reqs[r].settings.frequency = u32(147500)
        /\ reqs[r].resp = "FrequencyBelowMin"

\* The step leaves its integer type: a u32 subtraction below 0, a shift of a
\* u32 by 32 bits or more, a division by 0.  The saturating operations stay
\* in their type, and an i64 holds every difference of two u32.
Overflows(step) ==
    \/ step.op = "u32_sub" /\ u32_lt(step.a, step.b)
    \/ step.op = "u32_shl" /\ to_int(step.b) >= 32
    \/ step.op \in {"u32_div", "i64_div"} /\ step.b = u32(0)

IsU32(a) == a.hi \in 0..(LIMB - 1) /\ a.lo \in 0..(LIMB - 1)

\* C22: for every frequency of 32 bits and every zoom of 8 bits no
\* arithmetic step of validate() leaves its integer type: 1 << zoom is
\* evaluated for zoom <= 31 only, the upper end of the window is a u32 that
\* is not below the frequency (u32::MAX where the sum is beyond it), and the
\* lower end is the difference in i64.
C22_ValidateNoOverflow ==
    \A r \in DOMAIN reqs :
        (reqs[r].settings # None /\ reqs[r].pc # "new")
          => LET st == reqs[r].settings
                 steps == validate_steps(st)
             IN  /\ \A i \in 1..Len(steps) :
                       /\ ~Overflows(steps[i])
                       /\ IsU32(steps[i].a) /\ IsU32(steps[i].b)
                       /\ steps[i].op = "u32_shl" => to_int(steps[i].b) <= 31
                       /\ steps[i].op = "u32_saturating_add"
                            => LET sum == saturating_add_u32(steps[i].a, steps[i].b)
                               IN  /\ IsU32(sum)
                                   /\ ~u32_lt(sum, steps[i].a)
                                   /\ ~u32_lt(sum, steps[i].b)
                                   /\ u32_lt(u32_sub(U32_MAX, steps[i].a), steps[i].b)
                                        => sum = U32_MAX
                       /\ steps[i].op = "i64_saturating_sub"
                            => LET diff == i64_saturating_sub(i64_from(steps[i].a),
                                                              i64_from(steps[i].b))
                               IN  /\ IsU32(diff.mag)
                                   /\ diff.neg <=> u32_lt(steps[i].a, steps[i].b)
                 /\ validate(st) \in {"Ok", "ZoomTooHigh", "FrequencyAboveMax",
                                       "FrequencyBelowMin"}

\* A request with the largest shift, zoom 31, and the frequency u32::MAX,
\* where the upper end of the window saturates, has been answered.
C22_Witness ==
    \E r \in DOMAIN reqs :
        /\ reqs[r].pc = "done"
        /\ reqs[r].settings # None
        /\ reqs[r].settings.zoom = 31
        /\ reqs[r].settings.frequency = U32_MAX
        /\ reqs[r].resp = "FrequencyAboveMax"

\* The exponent of n > 0: the e with 10^e <= n < 10^(e+1).
ExponentOf(n) == CHOOSE e \in 0..9 : Pow10(e) <= n /\ (e = 9 \/ n \div 10 < Pow10(e))

Dist(a, b) == IF a < b THEN b - a ELSE a - b

\* The counts of thousandths nearest to n / 10^e: one, or the two
\* neighbours of a mantissa halfway between them.
Nearest(n) ==
    LET e == ExponentOf(n)
    IN  IF e <= 3 THEN { n * Pow10(3 - e) }
        ELSE LET scale == Pow10(e - 3)
                 below == n \div scale
                 over == n % scale
             IN  { k \in { below, below + 1 } :
                     2 * Dist(over, (k - below) * scale) <= scale }

\* A count k of thousandths written without trailing zeros and without a
\* trailing point, the point as 'd'.
Written(k) ==
    LET int == ToString(k \div 1000)
        frac == k % 1000
        d1 == ToString(frac \div 100)
        d2 == ToString((frac \div 10) % 10)
        d3 == ToString(frac % 10)
    IN  IF frac = 0 THEN int
        ELSE IF frac % 100 = 0 THEN int \o "d" \o d1
        ELSE IF frac % 10 = 0 THEN int \o "d" \o d1 \o d2
        ELSE int \o "d" \o d1 \o d2 \o d3

\* C23: to_scientific(0) is "0e0"; for n > 0 the result is the mantissa
\* n / 10^floor(log10 n) rounded to 3 decimals, without trailing zeros and
\* trailing point, the point written 'd', then 'e' and floor(log10 n);
\* 9_475_000 gives "9d475e6", 947_500 "9d475e5" and 16_490_000 "1d649e7".
C23_ToScientific ==
    info.pc = "done" =>
        /\ info.num = 0 => info.text = "0e0"
        /\ info.num > 0 =>
              \E k \in Nearest(info.num) :
                  info.text = Written(k) \o "e" \o ToString(ExponentOf(info.num))
        /\ info.num = 9475000 => info.text = "9d475e6"
        /\ info.num = 947500 => info.text = "9d475e5"
        /\ info.num = 16490000 => info.text = "1d649e7"

\* A mantissa of more than 3 decimals was rounded and its zeros stripped.
C23_Witness ==
    /\ info.pc = "done"
    /\ info.num = 10000000 + 5000 * 3
    /\ info.text = "1d002e7"

\* In this step the stdout task of child p calls mark_exited.
TakesMarkExited(p) == procs[p].rdOut = "reading" /\ procs'[p].rdOut # "reading"

\* C24: whenever mark_exited is invoked (by the stdout task at the end of
\* its stream) the job's status is Running or Stopping, never Starting or
\* Idle.
C24_MarkExitedOnRunningOrStopping ==
    [][\A p \in Procs :
          TakesMarkExited(p) => jobs[procs[p].job].status \in {"Running", "Stopping"}]_vars

\* In this step the Job::stop of call s calls mark_stopped_manually.
TakesMarkStoppedManually(s) == stops[s].pc = "mark_stopped" /\ stops'[s].pc # "mark_stopped"

\* C25: whenever Job::stop invokes mark_stopped_manually the job's status is
\* Stopping: it is never applied to a job that the stdout task has already
\* returned to Idle, or that has been started again since.
C25_MarkStoppedManuallyOnStopping ==
    [][\A s \in DOMAIN stops :
          TakesMarkStoppedManually(s) => jobs[stops[s].job].status = "Stopping"]_vars

\* C26: whenever mark_starting is invoked no process is attached to the job,
\* also when the scheduler starts a job that it found due and that a request
\* has started since.
C26_MarkStartingWithoutProcess ==
    [][\A c \in Callers :
          TakesMarkStarting(c) => jobs[StartJob(c)].process = None]_vars

\* In this step the task of stderr of child p reads a line or ends.
StderrTaskSteps(p) ==
    procs'[p].err < procs[p].err \/ procs'[p].rdErr # procs[p].rdErr

\* C27: of the two reader tasks of a child only the one of stdout is
\* exit-responsible: mark_exited has been called once when that task has
\* ended and not before, whether the task of stderr has ended or not, and no
\* step of the task of stderr changes the job's status.
C27_OneExitResponsibleReader ==
    [][\A p \in Procs :
          /\ procs'[p].marked = IF procs'[p].rdOut = "reading" THEN 0 ELSE 1
          /\ StderrTaskSteps(p) =>
                jobs'[procs[p].job].status = jobs[procs[p].job].status]_vars

\* A child whose stderr closed before its stdout: both tasks are over and
\* mark_exited was called once.
C27_Witness ==
    \E p \in Procs :
        /\ procs[p].rdErr = "done" /\ procs[p].rdOut = "done"
        /\ procs[p].marked = 1
        /\ Contains(jobs[procs[p].job].logs, "<STDERR>")

\* The task is at a point where it waits for I/O: before spawn() in
\* Job::start, before kill() and wait() in Job::stop, or in next_line() of a
\* reader task whose pipe holds no line and is not at its end.
BlockedOnIO(task) ==
    LET kind == task[1]
        n == task[2]
    IN  CASE kind = "req" -> reqs[n].pc = "spawn"
          [] kind = "sched" -> sched.pc = "spawn"
          [] kind = "stop" -> stops[n].pc = "kill"
          [] kind = "status" -> FALSE
          [] OTHER -> Reader(n, kind) = "reading" /\ Pipe(n, kind) = 0 /\ ~procs[n].exited

IsJobLock(lock) == lock[1] = "job"

\* C28: no task holds a job's lock while it is blocked on I/O: Job::start
\* has released it before the spawn, Job::stop before kill and wait, and a
\* reader task locks only with a line read and releases before it reads the
\* next.
C28_NoJobLockAcrossIO ==
    \A g \in locks : IsJobLock(g.lock) => ~BlockedOnIO(g.task)

\* A reader task holds the job's lock for the line it has read while the
\* Job::start that spawned it waits for the same lock.
C28_Witness ==
    \E g \in locks, r \in Requests :
        /\ g.task[1] = "out" /\ procs[g.task[2]].out > 0
        /\ g.lock = JobLock(reqs[r].job)
        /\ reqs[r].pc = "mark_running"

\* The task waits for a mutex that it does not hold.
WaitsFor(task, lock) == Wanted(task) = Some(lock) /\ Guard(task, lock) \notin locks

\* C29: the registry lock is never held while a job lock is being acquired
\* or I/O is performed: whoever holds it is before its map operation, no
\* task waits for a job lock with the registry lock in its hands, and no two
\* tasks wait for each other's lock.
C29_RegistryLockOnlyForMapOperations ==
    /\ \A g \in locks :
          g.lock = RegistryLock =>
              /\ Wanted(g.task) = Some(RegistryLock)
              /\ ~BlockedOnIO(g.task)
              /\ \A h \in 1..Len(jobs) : ~WaitsFor(g.task, JobLock(h))
    /\ \A g1, g2 \in locks :
          ~(WaitsFor(g1.task, g2.lock) /\ WaitsFor(g2.task, g1.lock))

\* A removal holds the registry lock for its map operation while the
\* scheduler, which has released it, holds a job's lock, and the status
\* request waits for the registry.
C29_Witness ==
    /\ Guard(<< "stop", 1 >>, RegistryLock) \in locks
    /\ \E h \in 1..Len(jobs) : Guard(<< "sched", 0 >>, JobLock(h)) \in locks
    /\ WaitsFor(<< "status", 0 >>, RegistryLock)

\* In this step the Job::stop of call s locks the job for mark_stopping.
TakesMarkStopping(s) == stops[s].pc = "mark_stopping" /\ stops'[s] # stops[s]

\* Call s has passed mark_stopping and taken the process handle.
TookHandle(s) == stops[s].child # None

Alive(p) == ~procs[p].exited

\* C31: at most one process spawned for a job is alive at any time: a new
\* process is spawned for a job only after its previous process has exited.
\* (Stated for the jobs that are to run again and for processes whose start
\* has completed: that a one-shot job is launched again at all is C9, and
\* what a reader task does before mark_running is C24.)
C31_AtMostOneProcessAlive ==
    \A p, q \in Procs :
        (/\ p # q /\ procs[p].job = procs[q].job
         /\ ~IsOneShot(jobs[procs[p].job])
         /\ procs[p].attached /\ procs[q].attached)
            => ~(Alive(p) /\ Alive(q))

\* C32: whenever the lock of a job is free, the job holds a process handle
\* exactly if its status is Running: an Idle, a Starting and a Stopping job
\* have an empty process slot, and a Running job has a process handle and a
\* started_at.
C32_HandleIffRunning ==
    \A h \in JobHandles :
        Free(JobLock(h)) =>
            /\ jobs[h].process # None <=> jobs[h].status = "Running"
            /\ jobs[h].status = "Running" => jobs[h].started_at # None

\* Each status has been seen with the lock free: a Running job with its
\* handle, and a job that a stop request has taken the handle from.
C32_Witness ==
    \E h \in JobHandles :
        /\ Free(JobLock(h))
        /\ jobs[h].status = "Stopping" /\ jobs[h].process = None
        /\ \E s \in StopCalls : stops[s].pc = "kill" /\ stops[s].child # None
        /\ \E p \in Procs : procs[p].job = h /\ procs[p].attached

\* A start_recorder request arrives: its slot check is the step.
RequestArrives(r) == reqs[r].pc = "new" /\ reqs'[r].pc # "new"

\* C33: the registry never holds more than MAX_JOB_SLOTS jobs, whatever the
\* interleaving of the start_recorder requests; a request that arrives while
\* MAX_JOB_SLOTS jobs exist is answered "All recorder slots are full" and
\* creates no job.
C33_AtMostMaxJobSlots ==
    [][/\ Cardinality(DOMAIN registry') <= MAX_JOB_SLOTS
       /\ \A r \in BatchRequests :
            RequestArrives(r) /\ Cardinality(DOMAIN registry) >= MAX_JOB_SLOTS
                => /\ reqs'[r].pc = "done" /\ reqs'[r].resp = "slots_full"
                   /\ registry' = registry /\ jobs' = jobs]_vars

\* The request does the hashmap.insert that follows its successful Job::start.
TakesInsert(r) == reqs[r].pc = "insert" /\ reqs'[r].pc = "done"

\* C34: the insert that start_recorder performs after a successful start
\* never changes which job an id maps to: it does not put a job back that a
\* removal has taken out meanwhile, and it does not replace another job that
\* has been created under the same id meanwhile.
C34_InsertChangesNoMapping ==
    [][\A r \in BatchRequests : TakesInsert(r) => registry' = registry]_vars

\* The request has called create_job and its own Job::start has not yet
\* taken the job's lock.
BeforeOwnStart(r) == reqs[r].pc = "mark_starting"

\* C35: between create_job and the Job::start of the same request no other
\* task starts the new job, so the Job::start of the handler never fails with
\* "Job not idle" because the scheduler has picked the job up first.
C35_NoOtherTaskStartsNewJob ==
    [][\A r \in Requests :
         /\ BeforeOwnStart(r) =>
               \A c \in Callers \ {r} :
                   ~(TakesMarkStarting(c) /\ StartJob(c) = reqs[r].job)
         /\ TakesMarkStarting(r) => ~ReturnsNotIdle(r)]_vars

\* The request is answered in this step with an error response.
EndsWithError(r) ==
    reqs[r].pc # "done" /\ reqs'[r].pc = "done" /\ reqs'[r].resp # "ok"

\* C36: when start_recorder ends with an error response (slots full, invalid
\* settings, a failed Job::start) the registry holds the jobs it held before
\* the request: a rejected request leaves the registry as it is, and a job
\* whose first start has failed is not in the registry.
C36_ErrorLeavesRegistry ==
    [][\A r \in BatchRequests :
         EndsWithError(r) =>
            IF reqs[r].job = 0
            THEN registry' = registry
            ELSE reqs[r].job \notin Handles(registry')]_vars

\* The removal of a job that exists is answered in this step.
RemovalEnds(s) ==
    /\ stops[s].kind = "remove" /\ stops[s].job # 0
    /\ stops[s].pc # "done" /\ stops'[s].pc = "done"

\* C37: the removal of an existing job stops the job only if it is running:
\* the removal of an Idle job ends with the success response, and whenever a
\* removal ends with an error response the job is still in the registry.
C37_RemoveStopsOnlyRunning ==
    [][\A s \in ConcurrentStops :
         RemovalEnds(s) =>
            /\ jobs[stops[s].job].status = "Idle" => stops'[s].resp = "ok"
            /\ stops'[s].resp # "ok" => stops[s].job \in Handles(registry')]_vars

\* A reader task of child p pushes an entry to the log of its job in this
\* step: a line of output, or the "<Exited>" of mark_exited.
PushesOutput(p) ==
    \/ procs'[p].out < procs[p].out
    \/ procs'[p].err < procs[p].err

PushesExited(p) ==
    /\ TakesMarkExited(p)
    /\ jobs'[procs[p].job].logs # jobs[procs[p].job].logs

\* The log of the job of child p holds the "<Started>" and the "<Settings>"
\* of the run of p: mark_running has been called with p.
RunLogged(p) ==
    LET logs == jobs[procs[p].job].logs
    IN  /\ procs[p].attached
        /\ \E i \in 1..(Len(logs) - 1) :
              logs[i] = Log(now, "<Started>") /\ logs[i + 1] = Log(now, "<Settings>")

\* C38: in the log of a job the "<Started>" and the "<Settings>" of a run
\* come before every "<STDOUT>" and "<STDERR>" line of the process of that
\* run, and the "<Exited>" of the run comes after its "<Started>".
C38_StartedBeforeOutput ==
    [][\A p \in Procs : (PushesOutput(p) \/ PushesExited(p)) => RunLogged(p)]_vars

\* The mantissas of one digit from 1 to 9 before the point, as counts of
\* thousandths.
OneDigitMantissas == { d * 1000 + frac : d \in 1..9, frac \in 0..999 }

\* C39: for n > 0 the mantissa part of to_scientific(n) has exactly one digit
\* before the optional 'd', a digit from 1 to 9, and the exponent is
\* floor(log10 n): rounding never produces a mantissa of 10.
C39_OneDigitMantissa ==
    (info.pc = "done" /\ info.num > 0) =>
        \E k \in OneDigitMantissas :
            info.text = Written(k) \o "e" \o ToString(ExponentOf(info.num))

\* C40: for every entry (k, job) of the registry, job.id() is k; the id and
\* the uid of a job never change after its creation.
C40_IdIsKey ==
    [][/\ \A k \in DOMAIN registry' : jobs'[registry'[k]].job_id = k
       /\ \A h \in JobHandles :
            /\ jobs'[h].job_id = jobs[h].job_id
            /\ jobs'[h].job_uid = jobs[h].job_uid]_vars

\* A job is in the registry under its id, which a job that has been removed
\* had before it, and a start request has done its insert.
C40_Witness ==
    /\ \A k \in DOMAIN registry : jobs[registry[k]].job_id = k
    /\ \E h, g \in JobHandles :
          /\ h # g /\ jobs[h].job_id = jobs[g].job_id
          /\ g \in Handles(registry) /\ h \notin Handles(registry)
    /\ \E r \in BatchRequests : reqs[r].pc = "done" /\ reqs[r].resp = "ok"

=============================================================================
